---- MODULE Spec2Model ----
(***************************************************************************)
(* Rangeland production model: the animal nutrition and multi-herbivore    *)
(* forage allocation engine (forage_utils.py) and the monthly loop that    *)
(* drives it (forage.py, execute).                                         *)
(*                                                                         *)
(* Numbers.  The program computes in Python floats.  The model computes in *)
(* exact rationals <<n, d>> with d > 0 and gcd(n, d) = 1, so an equality   *)
(* of the model is an equality of real arithmetic; a division by zero is   *)
(* never evaluated, it is an explicit ZeroDivisionError outcome.           *)
(* math.exp is a dyadic staircase (see exp).                               *)
(***************************************************************************)
EXTENDS Integers, Sequences, FiniteSets, TLC

VARIABLES
    pc,                     \* position of the driver in the scenario or in execute
    time_step,              \* forage_utils._time_step
    impl,                   \* which forage_utils module is loaded
    available_forage,       \* list of FeedType
    stocking_density_dict,  \* class label -> stocking density
    order,                  \* iteration order of diet_dict.keys()
    args,                   \* the inputs of the run
    h_index,                \* position of the loop over herbivore_list
    diet_pre,               \* diets as they were before the last reduce_demand call
    diet_dict,              \* class label -> Diet
    herd,                   \* class label -> HerbivoreClass
    step,                   \* the step of the simulation, or the number of calls made
    locals,                 \* the local variables of execute
    log                     \* the calls made so far in the step, oldest first

vars == <<pc, time_step, impl, available_forage, stocking_density_dict,
          order, args, h_index, diet_pre, diet_dict, herd, step, locals, log>>

-----------------------------------------------------------------------------
(* Rational arithmetic *)

Abs(n) == IF n < 0 THEN 0 - n ELSE n

RECURSIVE GCD(_, _)
GCD(a, b) == IF b = 0 THEN a ELSE GCD(b, a % b)

Norm(n, d) ==
    LET g == GCD(Abs(n), d) IN <<n \div g, d \div g>>

Q(n, d) == Norm(n, d)

Zero == <<0, 1>>

One == <<1, 1>>

RNeg(a) == <<0 - a[1], a[2]>>

RAdd(a, b) ==
    LET g == GCD(a[2], b[2])
        l == (a[2] \div g) * b[2]
    IN Norm(a[1] * (l \div a[2]) + b[1] * (l \div b[2]), l)

RSub(a, b) == RAdd(a, RNeg(b))

RMul(a, b) ==
    LET g1 == GCD(Abs(a[1]), b[2])
        g2 == GCD(Abs(b[1]), a[2])
    IN IF a[1] = 0 \/ b[1] = 0 THEN Zero
       ELSE <<(a[1] \div g1) * (b[1] \div g2), (a[2] \div g2) * (b[2] \div g1)>>

\* 1 / b, for b # 0
RInv(b) == IF b[1] < 0 THEN <<0 - b[2], 0 - b[1]>> ELSE <<b[2], b[1]>>

\* a / b, for b # 0
RDiv(a, b) == RMul(a, RInv(b))

RFloor(a) == a[1] \div a[2]

\* the fractional part of a, in [0, 1)
RFrac(a) == <<a[1] % a[2], a[2]>>

RLt(a, b) ==
    IF RFloor(a) # RFloor(b) THEN RFloor(a) < RFloor(b)
    ELSE RSub(RFrac(a), RFrac(b))[1] < 0

RLe(a, b) == ~RLt(b, a)

RMax(a, b) == IF RLt(a, b) THEN b ELSE a

RMin(a, b) == IF RLt(b, a) THEN b ELSE a

RECURSIVE RSum(_)
RSum(s) == IF s = <<>> THEN Zero ELSE RAdd(RSum(SubSeq(s, 1, Len(s) - 1)), s[Len(s)])

-----------------------------------------------------------------------------
(* Unit / time-step converter *)

time_divisor_dict ==
    [year |-> Q(365, 1), month |-> Q(152, 5), week |-> Q(7, 1), day |-> Q(1, 1)]

convert_daily_to_step(daily_amount) == RMul(daily_amount, time_divisor_dict[time_step])

\* the conversion left out: a step amount passed on as a daily one
convert_step_to_daily_skipped(step_amount) == step_amount

convert_step_to_daily(step_amount) ==
    RMul(step_amount, RDiv(One, time_divisor_dict[time_step]))

-----------------------------------------------------------------------------
(* Diet and FeedType *)

label_string(feed_type) == feed_type.label \o ";" \o feed_type.green_or_dead

Labels(forage) == {label_string(forage[i]) : i \in DOMAIN forage}

\* Diet() followed by fill_intake_zero(available_forage)
fill_intake_zero(forage) ==
    [If |-> Zero, Is |-> Zero, DMDf |-> Zero, CPIf |-> Zero,
     intake |-> [l \in Labels(forage) |-> Zero]]

-----------------------------------------------------------------------------
(* Breed parameter tables (freer_param.py): the coefficients the model uses *)

FreerParamCattle ==
    [CN1 |-> Q(115, 10000), CN2 |-> Q(27, 100), CN3 |-> Q(2, 5),
     CI1 |-> Q(25, 1000), CI2 |-> Q(17, 10), CI20 |-> Q(3, 2),
     CRD1 |-> Q(3, 10), CRD2 |-> Q(1, 4), CRD3 |-> Q(1, 10),
     CL5 |-> Q(94, 100), CL6 |-> Q(31, 10), CL15 |-> Q(32, 1000),
     CG12 |-> Q(92, 1000), CG13 |-> Q(12, 100),
     CR1 |-> Q(4, 5), CR2 |-> Q(17, 100), CR3 |-> Q(17, 10),
     CR4 |-> Q(78, 100000), CR5 |-> Q(3, 5), CR6 |-> Q(74, 100000),
     CR7 |-> Q(1, 2), CR11 |-> Q(21, 2), CR12 |-> Q(4, 5),
     CR13 |-> Q(35, 100), CR14 |-> One,
     CK1 |-> Q(1, 2), CK2 |-> Q(2, 100), CM1 |-> Q(9, 100), CM2 |-> Q(31, 100),
     CM3 |-> Q(8, 100000), CM4 |-> Q(84, 100), CM6 |-> Q(25, 10000),
     CM7 |-> Q(9, 10), CM16 |-> Q(26, 10000),
     CRD4 |-> Q(7, 1000), CRD5 |-> Q(5, 1000), CRD6 |-> Q(35, 100)]

FreerParamSheep ==
    [CN1 |-> Q(157, 10000), CN2 |-> Q(27, 100), CN3 |-> Q(2, 5),
     CI1 |-> Q(4, 100), CI2 |-> Q(17, 10), CI20 |-> Q(3, 2),
     CRD1 |-> Q(3, 10), CRD2 |-> Q(1, 4), CRD3 |-> Q(1, 10),
     CL5 |-> Q(94, 100), CL6 |-> Q(47, 10), CL15 |-> Q(45, 1000),
     CG12 |-> Q(72, 1000), CG13 |-> Q(14, 100),
     CR1 |-> Q(4, 5), CR2 |-> Q(17, 100), CR3 |-> Q(17, 10),
     CR4 |-> Q(112, 100000), CR5 |-> Q(3, 5), CR6 |-> Q(112, 100000),
     CR7 |-> Zero, CR11 |-> Q(21, 2), CR12 |-> Q(4, 5),
     CR13 |-> Q(35, 100), CR14 |-> One,
     CK1 |-> Q(1, 2), CK2 |-> Q(2, 100), CM1 |-> Q(9, 100), CM2 |-> Q(26, 100),
     CM3 |-> Q(8, 100000), CM4 |-> Q(84, 100), CM6 |-> Q(2, 100),
     CM7 |-> Q(9, 10), CM16 |-> Q(26, 10000),
     CRD4 |-> Q(7, 1000), CRD5 |-> Q(5, 1000), CRD6 |-> Q(35, 100)]

\* FreerParamHindgut: "based on the parameters for B. indicus cattle"
FreerParamHindgut == FreerParamCattle

\* the breeds the model runs: cattle (B_indicus), sheep and hindgut fermenters
get_params(type) ==
    IF type \in {"B_indicus", "B_taurus", "indicus_x_taurus"} THEN FreerParamCattle
    ELSE IF type = "sheep" THEN FreerParamSheep
    ELSE FreerParamHindgut

-----------------------------------------------------------------------------
(* math.exp *)

ExpSteps == 2

RECURSIVE Pow2(_)
Pow2(k) == IF k = 0 THEN 1 ELSE 2 * Pow2(k - 1)

\* math.exp(x) for x <= 0, as a staircase: exp(0) = 1; for -x in
\* [0.7 k, 0.7 (k+1)) it is 2^-(k+1), positive, below 1 and non-increasing
\* in -x; past ExpSteps steps the result is 0, as a float result no longer
\* changes 1 - exp(x) or 1 + c * exp(x) once exp(x) is small enough
exp(x) ==
    IF x[1] = 0 THEN One
    ELSE LET k == RFloor(RMul(RNeg(x), Q(10, 7))) + 1
         IN IF k > ExpSteps THEN Zero ELSE Q(1, Pow2(k))

-----------------------------------------------------------------------------
(* HerbivoreClass (natcap/invest/forage/forage_utils.py) *)

global_SRW == Q(550, 1)

global_birth_weight == Q(347, 10)

\* the standard reference weight of the sex
sex_SRW(sex, SRW) ==
    IF sex = "entire_m" THEN RMul(SRW, Q(14, 10))
    ELSE IF sex = "castrate" THEN RMul(SRW, Q(12, 10))
    ELSE IF sex = "herd_average"
    THEN RAdd(RAdd(RMul(SRW, Q(6323, 10000)), RMul(SRW, Q(1564, 10000))),
              RMul(SRW, Q(3071, 10000)))
    ELSE IF sex = "NA" THEN RDiv(RAdd(SRW, RMul(SRW, Q(14, 10))), Q(2, 1))
    ELSE SRW

\* HerbivoreClass.__init__(inputs_dict); the derived fields hold -1 until the
\* first update
HerbivoreClass(inputs_dict) ==
    [label |-> inputs_dict.label, type |-> inputs_dict.type, sex |-> inputs_dict.sex,
     Wbirth |-> IF RLt(Zero, inputs_dict.birth_weight) THEN inputs_dict.birth_weight
                ELSE global_birth_weight,
     SRW |-> sex_SRW(inputs_dict.sex,
                     IF RLt(Zero, inputs_dict.SRW) THEN inputs_dict.SRW
                     ELSE global_SRW),
     Wprev |-> inputs_dict.weight, W |-> inputs_dict.weight, A |-> inputs_dict.age,
     Nmax |-> Q(-1, 1), N |-> Q(-1, 1), Z |-> Q(-1, 1), Z_abs |-> Q(-1, 1),
     BC |-> Q(-1, 1), f_w |-> Zero, q_w |-> Zero]

\* "self.SRW ** self.FParam.CN2" with CN2 = 0.27, to the nearest quarter:
\* 60 ** 0.27 = 3.02, 550 ** 0.27 = 5.49, 660 ** 0.27 = 5.77, 770 ** 0.27 = 6.02
pow(SRW, CN2) ==
    IF RLe(SRW, Q(100, 1)) THEN Q(3, 1)
    ELSE IF RLe(SRW, Q(605, 1)) THEN Q(11, 2)
    ELSE IF RLe(SRW, Q(715, 1)) THEN Q(23, 4)
    ELSE Q(6, 1)

\* the previous weight not refreshed: "self.Wprev = self.W" left out
move_stale_Wprev(herb_class, delta_weight, delta_time) ==
    [herb_class EXCEPT
        !.W = IF RLt(RAdd(herb_class.W, delta_weight), herb_class.Wbirth)
              THEN Zero ELSE RAdd(herb_class.W, delta_weight),
        !.A = RAdd(herb_class.A, delta_time)]

\* the head of update as the body reads it: the previous weight kept, the
\* weight moved and never left between 0 and the birth weight, the age moved
move(herb_class, delta_weight, delta_time) ==
    [herb_class EXCEPT
        !.Wprev = herb_class.W,
        !.W = IF RLt(RAdd(herb_class.W, delta_weight), herb_class.Wbirth)
              THEN Zero ELSE RAdd(herb_class.W, delta_weight),
        !.A = RAdd(herb_class.A, delta_time)]

\* maximum body size (kg), eq 1
calc_Nmax(herb_class, FParam) ==
    RSub(herb_class.SRW,
         RMul(RSub(herb_class.SRW, herb_class.Wbirth),
              exp(RDiv(RMul(RNeg(FParam.CN1), herb_class.A),
                       pow(herb_class.SRW, FParam.CN2)))))

\* normal weight
calc_N(FParam, Nmax, Wprev) ==
    IF RLt(Wprev, Nmax)
    THEN RAdd(RMul(FParam.CN3, Nmax), RMul(RSub(One, FParam.CN3), Wprev))
    ELSE Nmax

\* relative size, relative condition and absolute size
set_N(herb_class, N) ==
    [herb_class EXCEPT !.N = N, !.Z = RDiv(N, herb_class.SRW),
                       !.BC = RDiv(herb_class.W, N), !.Z_abs = RDiv(N, Q(542, 1))]

set_Nmax(herb_class, FParam, Nmax) ==
    set_N([herb_class EXCEPT !.Nmax = Nmax], calc_N(FParam, Nmax, herb_class.Wprev))

\* the fields that depend on other fields, recomputed by every update
derive(herb_class, FParam) ==
    set_Nmax(herb_class, FParam, calc_Nmax(herb_class, FParam))

\* update without the mortality clamp: a weight below the birth weight is kept
update_unclamped(herb_class, delta_weight, delta_time) ==
    derive([herb_class EXCEPT !.Wprev = herb_class.W,
                              !.W = RAdd(herb_class.W, delta_weight),
                              !.A = RAdd(herb_class.A, delta_time)],
           get_params(herb_class.type))

\* HerbivoreClass.update(delta_weight=0, delta_time=0)
update(herb_class, delta_weight, delta_time) ==
    derive(move(herb_class, delta_weight, delta_time), get_params(herb_class.type))

\* HerbivoreClass.__init__ of forage_utils.py: the constructor sets the derived
\* fields itself, the normal weight without the cap at Nmax
construct_N(herb_class, FParam, Nmax) ==
    set_N([herb_class EXCEPT !.Nmax = Nmax],
          RAdd(RMul(FParam.CN3, Nmax), RMul(RSub(One, FParam.CN3), herb_class.Wprev)))

construct(inputs_dict) ==
    construct_N(HerbivoreClass(inputs_dict), get_params(inputs_dict.type),
                calc_Nmax(HerbivoreClass(inputs_dict), get_params(inputs_dict.type)))

\* HerbivoreClass.update(model_step) of forage_utils.py: it changes a class of
\* sex 'breeding_female' only, which no class here is
update_model_step(herb_class, model_step) == herb_class

-----------------------------------------------------------------------------
(* Scenario: a class is constructed and updated *)

MaxUpdates == 2

SexValues == {"castrate", "lac_female"}

StartWeights == {Zero, Q(20, 1), Q(100, 1), Q(600, 1)}

StartAges == {Zero, Q(100, 1), Q(1000, 1)}

BirthWeights == {Zero, Q(40, 1)}

DeltaWeights == {Zero, Q(-50, 1), Q(30, 1)}

DeltaTimes == {Zero, Q(152, 5)}

\* the two packages: src/forage_utils.py and natcap/invest/forage/forage_utils.py
Impls == {"forage_utils", "natcap"}

\* herbivore_class = HerbivoreClass(inputs_dict), of the package loaded
construct_class(inputs_dict) ==
    IF impl = "natcap" THEN HerbivoreClass(inputs_dict) ELSE construct(inputs_dict)

UpdateInit ==
    /\ pc = "constructed"
    /\ time_step = "month"
    /\ impl \in Impls
    /\ available_forage = <<>>
    /\ stocking_density_dict = <<>>
    /\ order = <<>>
    /\ args = "none"
    /\ h_index = 0
    /\ diet_pre = <<>>
    /\ diet_dict = <<>>
    /\ \E sex \in SexValues, weight \in StartWeights, age \in StartAges,
          birth_weight \in BirthWeights :
          herd = [h \in {"cattle"} |->
                    construct_class([label |-> h, type |-> "B_indicus", sex |-> sex,
                                     birth_weight |-> birth_weight, SRW |-> Zero,
                                     weight |-> weight, age |-> age])]
    /\ step = 0
    /\ locals = <<>>
    /\ log = <<>>

\* herb_class.update(delta_weight, delta_time); the call and the object as the
\* call found it are logged
Update ==
    /\ impl = "natcap"
    /\ pc \in {"constructed", "updated"}
    /\ step < MaxUpdates
    /\ \E delta_weight \in DeltaWeights, delta_time \in DeltaTimes :
          /\ herd' = [herd EXCEPT !["cattle"] = update(@, delta_weight, delta_time)]
          /\ log' = <<[op |-> "update", delta_weight |-> delta_weight,
                       delta_time |-> delta_time, before |-> herd["cattle"]]>>
    /\ step' = step + 1
    /\ pc' = "updated"
    /\ UNCHANGED <<time_step, impl, available_forage, stocking_density_dict, order,
                   args, h_index, diet_pre, diet_dict, locals>>

\* herb_class.update(step) of forage_utils.py
UpdateModelStep ==
    /\ impl = "forage_utils"
    /\ pc \in {"constructed", "updated_model_step"}
    /\ step < MaxUpdates
    /\ herd' = [herd EXCEPT !["cattle"] = update_model_step(@, step)]
    /\ log' = <<[op |-> "update_model_step", model_step |-> step,
                 before |-> herd["cattle"]]>>
    /\ step' = step + 1
    /\ pc' = "updated_model_step"
    /\ UNCHANGED <<time_step, impl, available_forage, stocking_density_dict, order,
                   args, h_index, diet_pre, diet_dict, locals>>

UpdateNext == Update \/ UpdateModelStep

UpdateSpec == UpdateInit /\ [][UpdateNext]_vars

-----------------------------------------------------------------------------
(* Diet selection engine *)

\* sorted(available_forage, reverse=True, key=attrgetter('digestibility')):
\* stable, so pools of equal digestibility keep the caller's order
RECURSIVE sorted(_)
sorted(forage) ==
    IF Len(forage) <= 1 THEN forage
    ELSE LET head == sorted(SubSeq(forage, 1, Len(forage) - 1))
             last == forage[Len(forage)]
             \* the pools that stay in front of last
             k == Cardinality({i \in DOMAIN head :
                                 RLe(last.digestibility, head[i].digestibility)})
         IN SubSeq(head, 1, k) \o <<last>> \o SubSeq(head, k + 1, Len(head))

\* calc_relative_height; its caller guards nothing, a zero total is an error
calc_relative_height(forage) ==
    LET num == RSum([i \in DOMAIN forage |-> forage[i].biomass])
        denom == RSum([i \in DOMAIN forage |->
                         RMul(forage[i].biomass, forage[i].biomass)])
    IN IF denom = Zero THEN [err |-> "ZeroDivisionError", HR |-> <<>>]
       ELSE [err |-> "none",
             HR |-> [i \in DOMAIN forage |->
                       RMul(RMul(Q(3, 1000), RDiv(RMul(num, num), denom)),
                            forage[i].biomass)]]

\* Supplement.__init__: the relative ingestibility of the supplement, eq 26
supp_RQ(FParam, DMD) ==
    RSub(One, RMin(FParam.CR14, RMul(FParam.CR3, RSub(FParam.CR1, DMD))))

\* eq 21
calc_RQ(FParam, prop_legume, feed_type) ==
    RSub(One, RMul(FParam.CR3,
                   RSub(RSub(FParam.CR1, RMul(RSub(One, prop_legume), feed_type.SF)),
                        feed_type.digestibility)))

\* "sum_prev_classes += F; UC = max(0., 1. - sum_prev_classes)"; eq 15
eat(st, F) ==
    [st EXCEPT !.sum_prev_classes = RAdd(@, F),
               !.UC = RMax(Zero, RSub(One, RAdd(st.sum_prev_classes, F)))]

\* eq 23
calc_Fs(FParam, Imax, supp, UC) ==
    RMin(RMin(RDiv(RDiv(supp.DMO, Imax), supp.RQ), UC),
         RDiv(FParam.CR11, supp.M_per_D))

\* the supplement is eaten ahead of the pool
select_supp(st, Fs) ==
    [eat(st, Fs) EXCEPT !.supp_selected = TRUE, !.supp_available = FALSE, !.Fs = Fs]

\* the comparison the other way round, "if supp.RQ <= RQ[f_index] or
\* force_supp": the supplement eaten ahead of a pool that scores at least as
\* high as it does
offer_supp_below(st, RQn, Imax, FParam, force_supp, supp) ==
    IF ~(st.supp_available /\ (RLe(supp.RQ, RQn) \/ force_supp)) THEN st
    ELSE IF Imax = Zero \/ supp.RQ = Zero \/ supp.M_per_D = Zero
    THEN [st EXCEPT !.err = "ZeroDivisionError"]
    ELSE select_supp(st, calc_Fs(FParam, Imax, supp, st.UC))

\* "if supp_available: if RQ[f_index] <= supp.RQ or force_supp: ..."
offer_supp(st, RQn, Imax, FParam, force_supp, supp) ==
    IF ~(st.supp_available /\ (RLe(RQn, supp.RQ) \/ force_supp)) THEN st
    ELSE IF Imax = Zero \/ supp.RQ = Zero \/ supp.M_per_D = Zero
    THEN [st EXCEPT !.err = "ZeroDivisionError"]
    ELSE select_supp(st, calc_Fs(FParam, Imax, supp, st.UC))

\* eq 18
calc_HF(FParam, HRn) == RAdd(RSub(One, FParam.CR12), RMul(FParam.CR12, HRn))

RSquare(a) == RMul(a, a)

\* eq 17
calc_RT(FParam, ZF, ft, HF) ==
    RAdd(One,
         RMul(FParam.CR5,
              exp(RNeg(RMul(RAdd(One, RMul(FParam.CR13, ft.rel_availability)),
                            RSquare(RMul(RMul(RMul(FParam.CR6, HF), ZF),
                                         ft.biomass)))))))

\* eq 16
calc_RR(FParam, ZF, ft, HF) ==
    RSub(One,
         exp(RNeg(RMul(RMul(RMul(RMul(RAdd(One, RMul(FParam.CR13,
                                                      ft.rel_availability)),
                                       FParam.CR4), HF), ZF),
                       ft.biomass))))

\* eq 14
calc_F(FParam, ZF, ft, HF, UC) ==
    RMul(RMul(UC, calc_RR(FParam, ZF, ft, HF)), calc_RT(FParam, ZF, ft, HF))

\* the pool is grazed with what capacity is left
graze(st, RQn, Fn) ==
    [eat(st, Fn) EXCEPT !.F = Append(@, Fn), !.RQ = Append(@, RQn)]

graze_after_supp(st, RQn, ZF, HRn, FParam, ft) ==
    IF st.err # "none" THEN st
    ELSE graze(st, RQn, calc_F(FParam, ZF, ft, calc_HF(FParam, HRn), st.UC))

\* the body of the first loop of diet_selection_t2, for one pool
forward_step(st, RQn, ZF, HRn, Imax, FParam, ft, force_supp, supp) ==
    graze_after_supp(offer_supp(st, RQn, Imax, FParam, force_supp, supp),
                     RQn, ZF, HRn, FParam, ft)

\* the first loop of diet_selection_t2 over the first n pools of the sorted list
RECURSIVE forward_pass(_, _, _, _, _, _, _, _, _, _)
forward_pass(ZF, HR, prop_legume, supp_available, Imax, FParam, forage, force_supp, supp, n) ==
    IF n = 0
    THEN [err |-> "none", sum_prev_classes |-> Zero, UC |-> One,
          supp_selected |-> FALSE, supp_available |-> supp_available,
          Fs |-> Zero, F |-> <<>>, RQ |-> <<>>]
    ELSE LET st == forward_pass(ZF, HR, prop_legume, supp_available, Imax, FParam,
                                forage, force_supp, supp, n - 1)
         IN IF st.err # "none" THEN st
            ELSE forward_step(st, calc_RQ(FParam, prop_legume, forage[n]), ZF,
                              HR[n], Imax, FParam, forage[n], force_supp, supp)

\* eq 20
calc_R(FParam, prop_legume, st, i) ==
    RMul(RMul(st.F[i], st.RQ[i]),
         RAdd(One, RMul(prop_legume,
                        RMul(FParam.CR2, RSquare(st.sum_prev_classes)))))

\* weight proportional intake by quantity weight and quality weight
calc_R_w(st, R, f_w, q_w) ==
    [i \in DOMAIN R |-> RAdd(RAdd(R[i], RMul(st.F[i], f_w)), RMul(st.RQ[i], q_w))]

\* the degenerate case tested with "<" instead of "=="
cannot_eat_negative(Imax) == RLt(Imax, Zero)

\* "if Imax == 0": the degenerate selection of an animal that cannot eat
cannot_eat(Imax) == Imax = Zero

\* a later pool of the same label overwrites the entry of an earlier one
last_of(forage, l) ==
    CHOOSE i \in DOMAIN forage :
        /\ label_string(forage[i]) = l
        /\ \A j \in DOMAIN forage : label_string(forage[j]) = l => j <= i

\* the Diet returned once every I[f_index] is known
selected_diet(st, I, If, Imax, forage, supp) ==
    IF If = Zero
    THEN [err |-> "ZeroDivisionError", diet |-> fill_intake_zero(forage)]
    ELSE [err |-> "none",
          diet |-> [If |-> If,
                    Is |-> IF st.supp_selected
                           THEN RMul(Imax, RMul(st.Fs, supp.RQ))     \* eq 25, 30
                           ELSE Zero,
                    DMDf |-> RDiv(RSum([i \in DOMAIN forage |->
                                          RMul(I[i], forage[i].digestibility)]), If),
                    CPIf |-> RSum([i \in DOMAIN forage |->
                                     RMul(I[i], forage[i].crude_protein)]),
                    intake |-> [l \in Labels(forage) |-> I[last_of(forage, l)]]]]

\* the weighted proportions rescaled to sum to 1: the whole ceiling is eaten
calc_I_whole_ceiling(R_w, sum_Rw, sum_R, Imax) ==
    [i \in DOMAIN R_w |-> RMul(Imax, RDiv(R_w[i], sum_Rw))]

\* rescale weighted proportions to retain original sum of R; eq 27
calc_I(R_w, sum_Rw, sum_R, Imax) ==
    [i \in DOMAIN R_w |-> RMul(Imax, RMul(RDiv(R_w[i], sum_Rw), sum_R))]

\* the weighted proportions used as they are, without the rescaling
rescale_skipped(st, R_w, sum_Rw, sum_R, Imax, forage, supp) ==
    selected_diet(st, [i \in DOMAIN R_w |-> RMul(Imax, R_w[i])],
                  RMul(Imax, sum_Rw), Imax, forage, supp)

rescale(st, R_w, sum_Rw, sum_R, Imax, forage, supp) ==
    IF sum_Rw = Zero
    THEN [err |-> "ZeroDivisionError", diet |-> fill_intake_zero(forage)]
    ELSE selected_diet(st, calc_I(R_w, sum_Rw, sum_R, Imax),
                       RSum(calc_I(R_w, sum_Rw, sum_R, Imax)), Imax, forage, supp)

weigh(st, R, Imax, forage, f_w, q_w, supp) ==
    rescale(st, calc_R_w(st, R, f_w, q_w), RSum(calc_R_w(st, R, f_w, q_w)),
            RSum(R), Imax, forage, supp)

\* the second and third loop of diet_selection_t2
select_intake(st, prop_legume, Imax, FParam, forage, f_w, q_w, supp) ==
    IF st.err # "none"
    THEN [err |-> st.err, diet |-> fill_intake_zero(forage)]
    ELSE weigh(st, [i \in DOMAIN forage |-> calc_R(FParam, prop_legume, st, i)],
               Imax, forage, f_w, q_w, supp)

\* diet selection on the pools sorted by digestibility
select_sorted(ZF, HR, prop_legume, supp_available, Imax, FParam, forage, f_w, q_w, force_supp, supp) ==
    select_intake(forward_pass(ZF, HR, prop_legume, supp_available, Imax, FParam,
                               forage, force_supp, supp, Len(forage)),
                  prop_legume, Imax, FParam, forage, f_w, q_w, supp)

\* the list sorted where it stands, "available_forage.sort(...)": the caller
\* finds its own list reordered
caller_list_sorted_in_place(caller_forage) == sorted(caller_forage)

\* "available_forage = sorted(available_forage, ...)" binds a new list to the
\* parameter and nothing is assigned to a FeedType: the list of the caller is
\* after the call what it was before
caller_list(caller_forage) == caller_forage

diet_selection_t2(ZF, HR, prop_legume, supp_available, Imax, FParam, caller_forage, f_w, q_w, force_supp, supp) ==
    IF cannot_eat(Imax)
    THEN [err |-> "none", diet |-> fill_intake_zero(sorted(caller_forage))]
    ELSE select_sorted(ZF, HR, prop_legume, supp_available, Imax, FParam,
                       sorted(caller_forage), f_w, q_w, force_supp, supp)

-----------------------------------------------------------------------------
(* Multi-class demand rationing *)

\* the biomass a pool offers to the herd: biomass_avail in forage_utils.py,
\* the standing biomass in the natcap package
available_of(feed_type) ==
    IF impl = "natcap" THEN feed_type.biomass ELSE feed_type.biomass_avail

\* first loop of reduce_demand for one pool: the per-class demand
indiv_demand(dd, sd_dict, feed_type, hclass_label) ==
    RMul(convert_daily_to_step(dd[hclass_label].intake[label_string(feed_type)]),
         sd_dict[hclass_label])

\* "demand = indiv_demand" in place of "demand += indiv_demand": the demand
\* of the class iterated last
pool_demand_last(dd, sd_dict, feed_type, keys) ==
    indiv_demand(dd, sd_dict, feed_type, keys[Len(keys)])

\* demand accumulated over diet_dict.keys() in iteration order
pool_demand(dd, sd_dict, feed_type, keys) ==
    RSum([i \in DOMAIN keys |-> indiv_demand(dd, sd_dict, feed_type, keys[i])])

\* does the natcap reduce_demand divide by a zero stocking density at this pool
ration_raises(dd, sd_dict, feed_type, keys) ==
    /\ impl = "natcap"
    /\ RLt(available_of(feed_type), pool_demand(dd, sd_dict, feed_type, keys))
    /\ \E i \in DOMAIN keys : sd_dict[keys[i]] = Zero

\* rationing by equal shares: what is available is split evenly between the
\* classes that graze, whatever each of them asked for
ration_pool_equal_shares(dd, sd_dict, feed_type, keys) ==
    LET l == label_string(feed_type)
        available == available_of(feed_type)
        demand == pool_demand(dd, sd_dict, feed_type, keys)
        grazing == Cardinality({h \in DOMAIN dd : sd_dict[h] # Zero})
        intake_daily(h) ==
            IF sd_dict[h] = Zero THEN Zero
            ELSE RDiv(convert_step_to_daily(RDiv(available, Q(grazing, 1))),
                      sd_dict[h])
    IN IF RLt(available, demand)
       THEN [h \in DOMAIN dd |-> [dd[h] EXCEPT !.intake[l] = intake_daily(h)]]
       ELSE dd

\* the body of the loop over pools: the intakes of one pool after rationing
ration_pool(dd, sd_dict, feed_type, keys) ==
    LET l == label_string(feed_type)
        available == available_of(feed_type)
        demand == pool_demand(dd, sd_dict, feed_type, keys)
        intake_daily(h) ==
            IF sd_dict[h] = Zero THEN Zero
            ELSE RDiv(convert_step_to_daily(
                          RMul(available,
                               RDiv(indiv_demand(dd, sd_dict, feed_type, h), demand))),
                      sd_dict[h])
    IN IF RLt(available, demand)
       THEN [h \in DOMAIN dd |-> [dd[h] EXCEPT !.intake[l] = intake_daily(h)]]
       ELSE dd

RECURSIVE ration_pools(_, _, _, _, _)
ration_pools(dd, sd_dict, forage, keys, n) ==
    IF n = 0 THEN [err |-> "none", diets |-> dd]
    ELSE LET before == ration_pools(dd, sd_dict, forage, keys, n - 1)
         IN IF before.err # "none" THEN before
            ELSE IF ration_raises(before.diets, sd_dict, forage[n], keys)
                 THEN [err |-> "ZeroDivisionError", diets |-> before.diets]
                 ELSE [err |-> "none",
                       diets |-> ration_pool(before.diets, sd_dict, forage[n], keys)]

\* the aggregates not reset to 0 before the intakes are summed again
recalc_diet_accumulating(diet, forage) ==
    LET intake_daily(i) == diet.intake[label_string(forage[i])]
        If == RAdd(diet.If, RSum([i \in DOMAIN forage |-> intake_daily(i)]))
        DMDf == RSum([i \in DOMAIN forage |->
                        RMul(intake_daily(i), forage[i].digestibility)])
        CPIf == RAdd(diet.CPIf, RSum([i \in DOMAIN forage |->
                        RMul(intake_daily(i), forage[i].crude_protein)]))
    IN [diet EXCEPT !.If = If,
                    !.DMDf = IF RLt(Zero, If) THEN RDiv(DMDf, If) ELSE DMDf,
                    !.CPIf = CPIf]

\* second loop of reduce_demand: recompute If, DMDf and CPIf of one diet
recalc_diet(diet, forage) ==
    LET intake_daily(i) == diet.intake[label_string(forage[i])]
        If == RSum([i \in DOMAIN forage |-> intake_daily(i)])
        DMDf == RSum([i \in DOMAIN forage |->
                        RMul(intake_daily(i), forage[i].digestibility)])
        CPIf == RSum([i \in DOMAIN forage |->
                        RMul(intake_daily(i), forage[i].crude_protein)])
    IN [diet EXCEPT !.If = If,
                    !.DMDf = IF RLt(Zero, If) THEN RDiv(DMDf, If) ELSE DMDf,
                    !.CPIf = CPIf]

\* the intakes rationed, the aggregates of the diets left as selection set them
reduce_demand_stale(dd, sd_dict, forage, keys) ==
    ration_pools(dd, sd_dict, forage, keys, Len(forage))

reduce_demand(dd, sd_dict, forage, keys) ==
    LET rationed == ration_pools(dd, sd_dict, forage, keys, Len(forage))
    IN IF rationed.err # "none" THEN rationed
       ELSE [err |-> "none",
             diets |-> [h \in DOMAIN dd |-> recalc_diet(rationed.diets[h], forage)]]

-----------------------------------------------------------------------------
(* Scenario: demand rationing of given diets *)

MaxIntake == 2

MaxAvail == 2

Classes == {"cattle", "sheep"}

TimeSteps == {"month"}

Orders == {<<"cattle", "sheep">>, <<"sheep", "cattle">>}

IntakeValues == {Q(n, 1) : n \in 0..MaxIntake}

DensityValues == {Zero, One, Q(2, 1)}

\* two pools of one grass; the herd may take biomass_avail of each
RationPools(a1, a2) ==
    << [label |-> "grass", green_or_dead |-> "green", biomass |-> a1,
        biomass_avail |-> a1, digestibility |-> Q(3, 5),
        crude_protein |-> Q(1, 10), SF |-> Zero, rel_availability |-> Q(1, 2)],
       [label |-> "grass", green_or_dead |-> "dead", biomass |-> a2,
        biomass_avail |-> a2, digestibility |-> Q(2, 5),
        crude_protein |-> Q(1, 20), SF |-> Zero, rel_availability |-> Q(1, 2)] >>

AvailValues == {Q(152 * n, 5) : n \in 0..MaxAvail}

\* a diet as diet selection leaves it: the aggregates agree with the intakes
GivenDiet(forage, i1, i2) ==
    recalc_diet([fill_intake_zero(forage) EXCEPT
                    !.intake = [l \in Labels(forage) |->
                                  IF l = label_string(forage[1]) THEN i1 ELSE i2]],
                forage)

RationInit ==
    /\ pc = "selected"
    /\ time_step \in TimeSteps
    /\ impl \in Impls
    /\ \E a1 \in AvailValues, a2 \in AvailValues :
          available_forage = RationPools(a1, a2)
    /\ stocking_density_dict \in [Classes -> DensityValues]
    /\ order \in Orders
    /\ \E f \in [Classes -> IntakeValues \X {Zero, One}] :
          diet_dict = [h \in Classes |->
                         GivenDiet(available_forage, f[h][1], f[h][2])]
    /\ diet_pre = diet_dict
    /\ args = "none"
    /\ h_index = 0
    /\ herd = <<>>
    /\ step = 0
    /\ locals = <<>>
    /\ log = <<>>

\* reduce_demand(diet_dict, stocking_density_dict, available_forage), called
\* on the selected diets and then once more on its own result
ReduceDemand ==
    /\ pc \in {"selected", "rationed"}
    /\ LET r == reduce_demand(diet_dict, stocking_density_dict,
                              available_forage, order)
       IN /\ diet_pre' = diet_dict
          /\ diet_dict' = r.diets
          /\ pc' = IF r.err # "none" THEN r.err
                   ELSE IF pc = "selected" THEN "rationed" ELSE "rationed_twice"
    /\ UNCHANGED <<time_step, impl, available_forage, stocking_density_dict, order,
                   args, h_index, herd, step, locals, log>>

RationNext == ReduceDemand

RationSpec == RationInit /\ [][RationNext]_vars

-----------------------------------------------------------------------------
(* Scenario: every class selects its diet, then demand is rationed *)

herbivore_list == <<"cattle", "sheep">>

DigestValues == {Q(1, 10), Q(3, 10), Q(4, 5)}

\* the intake ceiling of a class, kg per day: an animal that cannot eat, or 10
ImaxValues == {Zero, Q(10, 1)}

WeightValues == {Zero, One}

LegumeValues == {Zero}

\* Supplement(FreerParamCattle('indicus'), digestibility, kg_per_day, M_per_d, ...)
Supplement(DMD, DMO, M_per_D) ==
    [DMD |-> DMD, DMO |-> DMO, M_per_D |-> M_per_D,
     RQ |-> supp_RQ(FreerParamCattle, DMD)]

SuppValues == {Supplement(Q(3, 10), One, Q(10, 1)), Supplement(Q(4, 5), One, Q(10, 1))}

\* the two pools of one C3 grass, as calc_feed_types builds them: the relative
\* availability of a pool is its share of the total biomass
FeedTypes(d1, b1, d2, b2) ==
    LET sum_biomass == RAdd(b1, b2)
    IN << [label |-> "grass", green_or_dead |-> "green", biomass |-> b1,
           biomass_avail |-> b1, digestibility |-> d1, crude_protein |-> Q(1, 10),
           SF |-> Zero, rel_availability |-> RDiv(b1, sum_biomass)],
          [label |-> "grass", green_or_dead |-> "dead", biomass |-> b2,
           biomass_avail |-> b2, digestibility |-> d2, crude_protein |-> Q(1, 20),
           SF |-> Zero, rel_availability |-> RDiv(b2, sum_biomass)] >>

\* the biomass of the green and of the dead pool
BiomassPairs ==
    {<<Q(1000, 1), Zero>>, <<Zero, Q(1000, 1)>>, <<Q(1000, 1), Q(1000, 1)>>,
     <<Q(1000, 1), Q(500, 1)>>, <<Q(2000, 1), Q(2000, 1)>>}

\* no supplement, or one of SuppValues on offer
SuppOffers == {<<FALSE, Supplement(Q(3, 10), Zero, Q(10, 1))>>} \cup ({TRUE} \X SuppValues)

Animals(im, fw, qw) ==
    [h \in Classes |->
        IF h = "cattle"
        THEN [type |-> "B_indicus", ZF |-> One, Imax |-> im, f_w |-> fw, q_w |-> qw]
        ELSE [type |-> "sheep", ZF |-> Q(3, 2), Imax |-> Q(10, 1),
              f_w |-> Zero, q_w |-> Zero]]

SelectInit ==
    /\ pc = "select"
    /\ time_step = "month"
    /\ impl \in Impls
    /\ \E d1 \in DigestValues, d2 \in DigestValues, b \in BiomassPairs :
          available_forage = FeedTypes(d1, b[1], d2, b[2])
    /\ \E sd \in {One, Q(10, 1)} : stocking_density_dict = [h \in Classes |-> sd]
    /\ order = herbivore_list
    /\ \E pl \in LegumeValues, so \in SuppOffers,
          fw \in WeightValues, qw \in WeightValues, im \in ImaxValues :
          args = [prop_legume |-> pl, supp_available |-> so[1], supp |-> so[2],
                  force_supp |-> FALSE, animal |-> Animals(im, fw, qw)]
    /\ h_index = 1
    /\ diet_dict = <<>>
    /\ diet_pre = <<>>
    /\ herd = <<>>
    /\ step = 0
    /\ locals = <<>>
    /\ log = <<>>

\* one pass of the loop over herbivore_list: the class selects its diet
\* against the pools as they stand, the relative heights taken on the
\* caller's list
Select ==
    /\ pc = "select"
    /\ LET h == herbivore_list[h_index]
           a == args.animal[h]
           HR == calc_relative_height(available_forage)
           sel == diet_selection_t2(a.ZF, HR.HR, args.prop_legume,
                                    args.supp_available, a.Imax,
                                    get_params(a.type), available_forage,
                                    a.f_w, a.q_w, args.force_supp, args.supp)
       IN /\ IF HR.err # "none" \/ sel.err # "none"
             THEN /\ pc' = "ZeroDivisionError"
                  /\ UNCHANGED <<h_index, diet_dict>>
             ELSE /\ diet_dict' = [k \in DOMAIN diet_dict \cup {h} |->
                                     IF k = h THEN sel.diet ELSE diet_dict[k]]
                  /\ h_index' = h_index + 1
                  /\ pc' = IF h_index = Len(herbivore_list) THEN "selected" ELSE "select"
          /\ available_forage' = IF HR.err # "none" THEN available_forage
                                 ELSE caller_list(available_forage)
    /\ UNCHANGED <<time_step, impl, stocking_density_dict, order,
                   args, diet_pre, herd, step, locals, log>>

SelectNext == Select \/ ReduceDemand

SelectSpec == SelectInit /\ [][SelectNext]_vars

-----------------------------------------------------------------------------
(* Intake ceiling, energy budget, weight change and milk of a class
   (natcap package) *)

\* the value of a local of execute that is not bound
None == "None"

\* HerbivoreClass.calc_max_intake: the condition factor CF, eq 3
calc_CF(FParam, BC) ==
    IF RLt(One, BC)
    THEN RDiv(RMul(BC, RSub(FParam.CI20, BC)), RSub(FParam.CI20, One))
    ELSE One

\* HerbivoreClass.calc_max_intake: the lactation factor LF, eq 8. With
\* Ay = 30, LB = 1 and LC = 1 it is 1 + CI19 * Mi ** CI9 * exp(CI9 * (1 - Mi)),
\* Mi = 30 / CI8, which is 1.29 for the cattle parameters: 13/10 here. In
\* forage_utils.py the factor is that of a class whose reproductive_status is
\* 'lactating', which no class is before its first update(model_step).
calc_LF(sex) == IF impl = "natcap" /\ sex = "lac_female" THEN Q(13, 10) ELSE One

\* HerbivoreClass.calc_max_intake: eq 2, with YF = TF = 1
calc_eq2(FParam, herb_class, CF, LF) ==
    RMul(RMul(RMul(FParam.CI1, herb_class.SRW),
              RMul(herb_class.Z, RSub(FParam.CI2, herb_class.Z))),
         RMul(CF, LF))

\* eq 2 for every class, whatever its weight
calc_max_intake_any_weight(herb_class) ==
    calc_eq2(get_params(herb_class.type), herb_class,
             calc_CF(get_params(herb_class.type), herb_class.BC),
             calc_LF(herb_class.sex))

calc_max_intake(herb_class) ==
    IF RLe(herb_class.W, herb_class.Wbirth) THEN Zero
    ELSE calc_eq2(get_params(herb_class.type), herb_class,
                  calc_CF(get_params(herb_class.type), herb_class.BC),
                  calc_LF(herb_class.sex))

calc_ZF_of(FParam, Z_abs) ==
    IF RLt(Z_abs, FParam.CR7) THEN RAdd(One, RSub(FParam.CR7, Z_abs)) ELSE One

calc_ZF(herb_class) == calc_ZF_of(get_params(herb_class.type), herb_class.Z_abs)

\* DietIntermediates(): the record calc_diet_intermediates returns unchanged
\* for a diet without forage and without supplement
DietIntermediates ==
    [RDPIs |-> Q(-1, 1), RDPIf |-> Q(-1, 1), RDPR |-> Q(-1, 1), MP2 |-> Zero,
     Pl |-> Zero, L |-> Q(-1, 1), Pnet |-> Q(-1, 1), PCG |-> Q(-1, 1),
     EVG |-> Q(-1, 1), NEg1 |-> Q(-1, 1), Pg1 |-> Zero, MEItotal |-> Zero]

\* milk production budgeted for a class, MP2: for a lactating female only
budget_MP2(herb_class) ==
    IF herb_class.sex = "lac_female" THEN Q(10, 1) ELSE Zero

\* a budget calc_diet_intermediates returns for a diet that holds something,
\* with Pl = CL15 * MP2 / CL6 (eq 76) and Pnet = Pg1 - PCG * (NEg1 / EVG) as
\* the function sets them
budget(herb_class, FParam, RDPIf, L, Pnet, EVG, NEg1) ==
    [RDPIs |-> Zero, RDPIf |-> RDPIf, RDPR |-> One,
     MP2 |-> budget_MP2(herb_class),
     Pl |-> RMul(FParam.CL15, RDiv(budget_MP2(herb_class), FParam.CL6)),
     L |-> L, Pnet |-> Pnet, PCG |-> Q(1, 5), EVG |-> EVG, NEg1 |-> NEg1,
     Pg1 |-> RAdd(Pnet, RMul(Q(1, 5), RDiv(NEg1, EVG))),
     MEItotal |-> Q(100, 1)]

\* Pnet of the budget short of protein: half of Pl short for a lactating
\* female, so that her milk is halved
short_Pnet(herb_class) ==
    IF herb_class.sex = "lac_female" THEN Q(-8, 155) ELSE Q(-1, 2)

\* NEg1 of the budget short of protein, MJ: 5 MJ are left for gain after the
\* milk and protein corrections
short_NEg1(herb_class) ==
    IF herb_class.sex = "lac_female" THEN Q(1831, 2500)
    ELSE IF herb_class.type = "sheep" THEN Q(5177, 625)
    ELSE Q(5747, 625)

\* the budgets of a diet that holds something, with EVG 18.24 MJ per kg:
\* protein and energy adequate (the class gains weight); rumen-degradable and
\* net protein short (the ceiling is reduced, milk lowered, less weight
\* gained); energy short (the class loses weight); energy short with EVG < 0
\* (forced starvation)
IntermValues(herb_class) ==
    {budget(herb_class, get_params(herb_class.type),
            Q(2, 1), One, One, Q(456, 25), Q(10, 1)),
     budget(herb_class, get_params(herb_class.type),
            Zero, Zero, short_Pnet(herb_class), Q(456, 25), short_NEg1(herb_class)),
     budget(herb_class, get_params(herb_class.type),
            One, Zero, One, Q(456, 25), Q(-10, 1)),
     budget(herb_class, get_params(herb_class.type),
            One, Zero, One, Q(-1, 1), Q(-5, 1))}

\* calc_diet_intermediates: the set of records it may return for the diet
calc_diet_intermediates(diet, herb_class) ==
    IF diet.If = Zero /\ diet.Is = Zero THEN {DietIntermediates}
    ELSE IntermValues(herb_class)

\* check_max_intake: rumen-degradable protein intake
calc_RDPI(FParam, diet, diet_interm) ==
    IF RLt(Zero, diet_interm.L)
    THEN RAdd(RMul(diet_interm.RDPIf,
                   RSub(One, RMul(RSub(FParam.CRD1, RMul(FParam.CRD2, diet.DMDf)),
                                  diet_interm.L))),
              RMul(diet_interm.RDPIs, RSub(One, RMul(FParam.CRD3, diet_interm.L))))
    ELSE RAdd(diet_interm.RDPIf, diet_interm.RDPIs)

\* the reduction of B_taurus applied to every type
reduction_factor_taurus(type, ratio) == ratio

reduction_factor(type, ratio) ==
    IF type = "B_taurus" THEN ratio
    ELSE IF type = "B_indicus" THEN RSub(One, RMul(RSub(One, ratio), Q(1, 2)))
    ELSE RSub(One, RMul(RSub(One, ratio), Q(3, 4)))

reduce_intake(type, RDPR, RDPI, max_intake) ==
    IF RLt(RDPI, RDPR)
    THEN RMul(max_intake, reduction_factor(type, RDiv(RDPI, RDPR)))
    ELSE max_intake

check_max_intake(diet, diet_interm, herb_class, max_intake) ==
    IF max_intake = Zero THEN Zero
    ELSE reduce_intake(herb_class.type, diet_interm.RDPR,
                       calc_RDPI(get_params(herb_class.type), diet, diet_interm),
                       max_intake)

\* calc_delta_weight: net energy for gain
calc_NEg(FParam, diet_interm) ==
    RAdd(diet_interm.NEg1,
         RMul(RMul(FParam.CG12, diet_interm.EVG),
              RDiv(RMin(Zero, diet_interm.Pnet), diet_interm.PCG)))

\* eq 117 applied whatever the signs: the starvation branch left out
weight_change_unforced(FParam, herb_class, NEg, EVG) ==
    RMul(FParam.CG13, RDiv(NEg, EVG))

\* calc_delta_weight: forced starvation, or eq 117
weight_change(FParam, herb_class, NEg, EVG) ==
    IF RLt(NEg, Zero) /\ RLt(EVG, Zero)
    THEN RNeg(convert_step_to_daily(herb_class.W))
    ELSE RMul(FParam.CG13, RDiv(NEg, EVG))

calc_delta_weight(diet_interm, herb_class) ==
    IF diet_interm.MEItotal = Zero THEN Zero
    ELSE weight_change(get_params(herb_class.type), herb_class,
                       calc_NEg(get_params(herb_class.type), diet_interm),
                       diet_interm.EVG)

\* check_milk_production, eq 110
calc_MP(diet_interm) ==
    RMul(RAdd(One, RMin(Zero, RDiv(diet_interm.Pnet, diet_interm.Pl))),
         diet_interm.MP2)

\* eq 111
calc_NEg2(FParam, diet_interm, MP) ==
    RAdd(diet_interm.NEg1, RMul(FParam.CL5, RSub(diet_interm.MP2, MP)))

\* eq 112 and 113
calc_Pnet2(FParam, diet_interm, MP, NEg2) ==
    RSub(RAdd(diet_interm.Pg1,
              RMul(RSub(diet_interm.MP2, MP), RDiv(FParam.CL15, FParam.CL6))),
         RMul(diet_interm.PCG, RDiv(NEg2, diet_interm.EVG)))

lower_milk(FParam, diet_interm, MP, NEg2) ==
    [MP |-> MP,
     diet_interm |-> [diet_interm EXCEPT
                        !.Pl = RMul(FParam.CL15, RDiv(MP, FParam.CL6)),
                        !.NEg1 = NEg2,
                        !.Pnet = calc_Pnet2(FParam, diet_interm, MP, NEg2)]]

\* check_milk_production: the milk production and the modified diet_interm
check_milk_production(FParam, diet_interm) ==
    IF diet_interm.L = Q(-1, 1) THEN [MP |-> Zero, diet_interm |-> diet_interm]
    ELSE lower_milk(FParam, diet_interm, calc_MP(diet_interm),
                    calc_NEg2(FParam, diet_interm, calc_MP(diet_interm)))

find_days_per_step == time_divisor_dict[time_step]

calc_total_biomass(forage) == RSum([i \in DOMAIN forage |-> forage[i].biomass])

calc_total_intake(dd, sd_dict, keys) ==
    RSum([i \in DOMAIN keys |->
            RMul(convert_daily_to_step(dd[keys[i]].If), sd_dict[keys[i]])])

-----------------------------------------------------------------------------
(* Forage pools: calc_feed_types and update_feed_types *)

\* FeedType(label, green_or_dead, biomass, digestibility, crude_protein, type)
FeedType(label, green_or_dead, biomass, digestibility, crude_protein, type) ==
    [label |-> label, green_or_dead |-> green_or_dead, biomass |-> biomass,
     biomass_avail |-> Zero, digestibility |-> digestibility,
     crude_protein |-> crude_protein,
     SF |-> IF type = "C3" THEN Zero ELSE Q(4, 25), rel_availability |-> Zero]

\* calc_feed_types: the total biomass, kg per ha, each grass weighted by its
\* share of the initial biomass
weighted_biomass(grass_list) ==
    RSum([g \in DOMAIN grass_list |->
            RMul(RMul(RAdd(grass_list[g].green_gm2, grass_list[g].dead_gm2),
                      Q(10, 1)),
                 grass_list[g].percent_biomass)])

\* the green and the dead pool of one grass
feed_types_of(grass, percent_green, total_type_biomass) ==
    << FeedType(grass.label, "green", RMul(percent_green, total_type_biomass),
                grass.DMD_green, grass.cprotein_green, grass.type),
       FeedType(grass.label, "dead",
                RMul(RSub(One, percent_green), total_type_biomass),
                grass.DMD_dead, grass.cprotein_dead, grass.type) >>

\* the pools of the first n grasses
RECURSIVE build_forage(_, _, _)
build_forage(grass_list, sum_biomass, n) ==
    IF n = 0 THEN <<>>
    ELSE build_forage(grass_list, sum_biomass, n - 1) \o
         feed_types_of(grass_list[n],
                       RDiv(grass_list[n].green_gm2,
                            RAdd(grass_list[n].green_gm2, grass_list[n].dead_gm2)),
                       RMul(grass_list[n].percent_biomass, sum_biomass))

\* "feed_type.rel_availability = feed_type.biomass / sum_biomass"
set_rel_availability(forage, sum_biomass) ==
    [i \in DOMAIN forage |->
        [forage[i] EXCEPT !.rel_availability = RDiv(forage[i].biomass, sum_biomass)]]

calc_feed_types(grass_list) ==
    set_rel_availability(build_forage(grass_list, weighted_biomass(grass_list),
                                      Len(grass_list)),
                         weighted_biomass(grass_list))

\* update_feed_types: a pool grown by the percent growth of its grass;
\* forage_utils.py also takes the crude protein of the grass
grow_pool(feed_type, perc_grow, crude_protein) ==
    [feed_type EXCEPT
        !.biomass = RAdd(@, RMul(perc_grow, @)),
        !.crude_protein = IF impl = "natcap" THEN @ ELSE crude_protein]

\* the inner loop of update_feed_types for one grass
grow(forage, grass) ==
    [i \in DOMAIN forage |->
        IF forage[i].label # grass.label THEN forage[i]
        ELSE IF forage[i].green_or_dead = "green"
        THEN grow_pool(forage[i],
                       RDiv(RSub(grass.green_gm2, grass.prev_g_gm2), grass.prev_g_gm2),
                       grass.cprotein_green)
        ELSE grow_pool(forage[i],
                       RDiv(RSub(grass.dead_gm2, grass.prev_d_gm2), grass.prev_d_gm2),
                       grass.cprotein_dead)]

\* the pools and sum_biomass of forage_utils.py after one more grass:
\* "sum_biomass += feed_type.biomass" runs for every pool in the pass of
\* every grass
pass(prev, forage) ==
    [forage |-> forage,
     sum_biomass |-> RAdd(prev.sum_biomass,
                          RSum([i \in DOMAIN forage |-> forage[i].biomass]))]

\* the outer loop of update_feed_types over the first n grasses
RECURSIVE grow_all(_, _, _)
grow_all(grass_list, forage, n) ==
    IF n = 0 THEN [forage |-> forage, sum_biomass |-> Zero]
    ELSE pass(grow_all(grass_list, forage, n - 1),
              grow(grow_all(grass_list, forage, n - 1).forage, grass_list[n]))

\* the natcap package returns the pools with the relative availability they had
rel_availability_after(grown) ==
    IF impl = "natcap" THEN grown.forage
    ELSE set_rel_availability(grown.forage, grown.sum_biomass)

update_feed_types(grass_list, forage) ==
    rel_availability_after(grow_all(grass_list, forage, Len(grass_list)))

-----------------------------------------------------------------------------
(* Scenario: the simulation steps of execute (forage.py) *)

\* args['num_months']: a run of one month, or of two
NumMonths == {1, 2}

\* args['grz_months']: not given, or grazing in the first month only
GrzMonths == {[given |-> FALSE, months |-> {}], [given |-> TRUE, months |-> {0}]}

\* 'aglivc' and 'stdedc' of the CENTURY outputs of the months of a run, g per
\* square m: the same every month
Steady == [s \in 0..2 |-> <<Q(200, 1), Q(200, 1)>>]

\* half of the grass gone in the second month, and back in the third
Dip == [s \in 0..2 |-> IF s = 1 THEN <<Q(100, 1), Q(100, 1)>>
                       ELSE <<Q(200, 1), Q(200, 1)>>]

\* the runs: one or two months on steady pools, or three months with grazing
\* in the third only
Runs ==
    {[num_months |-> nm, grz_months |-> grz, outputs |-> Steady] :
        nm \in NumMonths, grz \in GrzMonths}
    \cup {[num_months |-> 3, grz_months |-> [given |-> TRUE, months |-> {2}],
           outputs |-> o] : o \in {Steady, Dip}}

\* grass_list once the head of step s has read the outputs of its month
grass_list_of(outputs, s) ==
    << [label |-> "grass", green_gm2 |-> outputs[s][1], dead_gm2 |-> outputs[s][2],
        prev_g_gm2 |-> outputs[s - 1][1], prev_d_gm2 |-> outputs[s - 1][2],
        cprotein_green |-> Q(1, 10), cprotein_dead |-> Q(1, 20)] >>

\* available_forage of step s: calc_feed_types has built the pools of step 0,
\* update_feed_types grows them at every later step
pools_of_step(a, s, forage) ==
    IF s = 0 THEN forage ELSE update_feed_types(grass_list_of(a.outputs, s), forage)

\* args['mgmt_threshold']: the share of the standing biomass to be left
Thresholds == {Zero, Q(9, 10)}

\* 'supp_csv' in args, supp_available, supp: without the file supp is never
\* bound; with it one supplement of 0 or 1 kg per day
ExecSupps ==
    {<<FALSE, FALSE, None>>,
     <<TRUE, FALSE, Supplement(Q(4, 5), Zero, Q(10, 1))>>,
     <<TRUE, TRUE, Supplement(Q(4, 5), One, Q(10, 1))>>}

\* the animals per ha of each class
ExecDensities == {One, Q(10, 1)}

\* the weight of the cattle class at the start: below the birth weight, or 275
ExecWeights == {Q(20, 1), Q(275, 1)}

\* the type of the second class: a sheep of 40 kg, or a horse of 275 kg
SecondTypes == {"sheep", "hindgut_fermenter"}

\* a row of herbivore_csv
herbivore_input(h, weight, sex, type) ==
    IF h = "cattle"
    THEN [label |-> h, type |-> "B_indicus", sex |-> sex, weight |-> weight,
          age |-> Q(3000, 1), birth_weight |-> Zero, SRW |-> Zero,
          quant_weight |-> Zero, qual_weight |-> Zero]
    ELSE IF type = "sheep"
    THEN [label |-> h, type |-> type, sex |-> "castrate", weight |-> Q(40, 1),
          age |-> Q(3000, 1), birth_weight |-> Q(4, 1), SRW |-> Q(50, 1),
          quant_weight |-> Zero, qual_weight |-> Zero]
    ELSE [label |-> h, type |-> type, sex |-> "castrate", weight |-> Q(275, 1),
          age |-> Q(3000, 1), birth_weight |-> Q(40, 1), SRW |-> Zero,
          quant_weight |-> Zero, qual_weight |-> Zero]

\* the locals of execute, and of one_step, the steps read
ExecLocals ==
    [threshold_exceeded |-> FALSE, total_biomass |-> None, threshold_biomass |-> None,
     max_intake |-> None, reduced_max_intake |-> None, diet |-> None,
     diet_interm |-> None, total_intake_step |-> None]

\* execute of the natcap package is run on a herd, or one_step of
\* forage_utils.py on one class of it
ExecInit ==
    /\ impl \in Impls
    /\ pc = IF impl = "natcap" THEN "begin_step" ELSE "one_step"
    /\ time_step = "month"
    /\ available_forage = FeedTypes(Q(4, 5), Q(2000, 1), Q(3, 10), Q(2000, 1))
    /\ \E sd \in ExecDensities : stocking_density_dict = [h \in Classes |-> sd]
    /\ order = herbivore_list
    /\ \E run \in Runs, rm \in BOOLEAN, so \in ExecSupps, mt \in Thresholds :
          args = [num_months |-> run.num_months, grz_months |-> run.grz_months,
                  outputs |-> run.outputs, restart_monthly |-> rm,
                  supp_csv |-> so[1], supp_available |-> so[2], supp |-> so[3],
                  mgmt_threshold |-> mt, prop_legume |-> Zero, force_supp |-> FALSE]
    /\ \E w \in ExecWeights, sex \in SexValues, type \in SecondTypes :
          herd = [h \in Classes |->
                    IF impl = "natcap"
                    THEN update(HerbivoreClass(herbivore_input(h, w, sex, type)),
                                Zero, Zero)
                    ELSE construct(herbivore_input(h, w, sex, type))]
    /\ h_index \in IF impl = "natcap" THEN {1} ELSE DOMAIN herbivore_list
    /\ diet_dict = <<>>
    /\ diet_pre = <<>>
    /\ step = 0
    /\ locals = ExecLocals
    /\ log = <<>>

\* an entry of the record of what the step has done so far
event(op, class, Imax) == [op |-> op, class |-> class, Imax |-> Imax]

\* diet_dict[label] = diet
put(dd, label, diet) ==
    [k \in DOMAIN dd \cup {label} |-> IF k = label THEN diet ELSE dd[k]]

\* diet_dict.keys()
keys_of(dd) ==
    LET has(h) == h \in DOMAIN dd
    IN SelectSeq(order, has)

\* args['grz_months'] is not None and step not in args['grz_months']
not_grazing(a, s) == a.grz_months.given /\ s \notin a.grz_months.months

\* the first loop left after its first class
after_store_early(i) == "ration"

\* the first loop over herbivore_list goes on to the next class, or ends
after_store(i) == IF i = Len(herbivore_list) THEN "ration" ELSE "select"

\* the second selection made whatever check_max_intake returned
after_check_always(reduced_max_intake, max_intake) == "reselect"

\* if reduced_max_intake < max_intake
after_check(reduced_max_intake, max_intake) ==
    IF RLt(reduced_max_intake, max_intake) THEN "reselect" ELSE "store"

\* the second loop over herbivore_list goes on to the next class, or ends
after_update(i) == IF i = Len(herbivore_list) THEN "end_step" ELSE "integrate"

\* the head of the step loop after available_forage is bound
step_begun(forage) ==
    /\ available_forage' = forage
    /\ locals' = [locals EXCEPT
                    !.threshold_exceeded = IF args.restart_monthly THEN FALSE ELSE @,
                    !.total_biomass = calc_total_biomass(forage),
                    !.threshold_biomass =
                        IF step = 0
                        THEN RMul(calc_total_biomass(forage), args.mgmt_threshold)
                        ELSE @,
                    !.total_intake_step = None]

\* the head of the step loop up to diet_dict = {}
BeginStep ==
    /\ pc = "begin_step"
    /\ step < args.num_months
    /\ step_begun(pools_of_step(args, step, available_forage))
    /\ diet_dict' = <<>>
    /\ diet_pre' = <<>>
    /\ h_index' = 1
    /\ log' = <<>>
    /\ pc' = "select"
    /\ UNCHANGED <<time_step, impl, stocking_density_dict, order, args, herd, step>>

\* first loop, a month without grazing: the class gets the zero diet
SkipClass ==
    /\ pc = "select"
    /\ not_grazing(args, step)
    /\ diet_dict' = put(diet_dict, herbivore_list[h_index],
                        fill_intake_zero(available_forage))
    /\ log' = Append(log, event("skip", herbivore_list[h_index], None))
    /\ h_index' = h_index + 1
    /\ pc' = after_store(h_index)
    /\ UNCHANGED <<time_step, impl, available_forage, stocking_density_dict, order,
                   args, diet_pre, herd, step, locals>>

\* the call of diet_selection_t2 in execute for a class and an intake ceiling
select_for(herb_class, HR, Imax, f_w, q_w) ==
    diet_selection_t2(calc_ZF(herb_class), HR, args.prop_legume, args.supp_available,
                      Imax, get_params(herb_class.type), available_forage,
                      f_w, q_w, args.force_supp, args.supp)

\* the exception that ends execute
raise(exception) ==
    /\ pc' = exception
    /\ UNCHANGED <<locals, log>>

\* the first selection has returned its diet
selected(h, max_intake, sel) ==
    IF sel.err # "none" THEN raise(sel.err)
    ELSE /\ locals' = [locals EXCEPT !.max_intake = max_intake, !.diet = sel.diet]
         /\ log' = Append(log, event("select", h, max_intake))
         /\ pc' = "check"

\* first loop, a grazing month: the intake ceiling of the class and its first
\* diet selection. calc_distance_walked sets herb_class.D, which only
\* calc_diet_intermediates reads.
SelectDiet ==
    /\ pc = "select"
    /\ ~not_grazing(args, step)
    /\ IF calc_relative_height(available_forage).err # "none"
       THEN raise(calc_relative_height(available_forage).err)
       ELSE IF ~args.supp_csv
       THEN raise("NameError")
       ELSE selected(herbivore_list[h_index],
                     calc_max_intake(herd[herbivore_list[h_index]]),
                     select_for(herd[herbivore_list[h_index]],
                                calc_relative_height(available_forage).HR,
                                calc_max_intake(herd[herbivore_list[h_index]]),
                                herd[herbivore_list[h_index]].f_w,
                                herd[herbivore_list[h_index]].q_w))
    /\ UNCHANGED <<time_step, impl, available_forage, stocking_density_dict, order,
                   args, h_index, diet_pre, diet_dict, herd, step>>

\* check_max_intake has returned the ceiling the selected diet allows
checked(h, reduced_max_intake) ==
    /\ locals' = [locals EXCEPT !.reduced_max_intake = reduced_max_intake]
    /\ log' = Append(log, event("check", h, reduced_max_intake))
    /\ pc' = after_check(reduced_max_intake, locals.max_intake)

\* first loop: the energy budget of the selected diet and, unless the class is
\* a hindgut fermenter, the check of the intake ceiling against it
CheckIntake ==
    /\ pc = "check"
    /\ IF herd[herbivore_list[h_index]].type = "hindgut_fermenter"
       THEN /\ pc' = "store"
            /\ UNCHANGED <<locals, log>>
       ELSE \E diet_interm \in calc_diet_intermediates(locals.diet,
                                                         herd[herbivore_list[h_index]]) :
               checked(herbivore_list[h_index],
                       check_max_intake(locals.diet, diet_interm,
                                        herd[herbivore_list[h_index]],
                                        locals.max_intake))
    /\ UNCHANGED <<time_step, impl, available_forage, stocking_density_dict, order,
                   args, h_index, diet_pre, diet_dict, herd, step>>

\* the second selection has returned its diet
reselected(h, sel) ==
    IF sel.err # "none" THEN raise(sel.err)
    ELSE /\ locals' = [locals EXCEPT !.diet = sel.diet]
         /\ log' = Append(log, event("reselect", h, locals.reduced_max_intake))
         /\ pc' = "store"

\* first loop: the selection with the reduced ceiling, f_w and q_w left at 0
Reselect ==
    /\ pc = "reselect"
    /\ reselected(herbivore_list[h_index],
                  select_for(herd[herbivore_list[h_index]],
                             calc_relative_height(available_forage).HR,
                             locals.reduced_max_intake, Zero, Zero))
    /\ UNCHANGED <<time_step, impl, available_forage, stocking_density_dict, order,
                   args, h_index, diet_pre, diet_dict, herd, step>>

\* first loop: diet_dict[herb_class.label] = diet; the ceilings and the diet
\* are bound again before the next read
StoreDiet ==
    /\ pc = "store"
    /\ diet_dict' = put(diet_dict, herbivore_list[h_index], locals.diet)
    /\ locals' = [locals EXCEPT !.max_intake = None, !.reduced_max_intake = None,
                                !.diet = None]
    /\ log' = Append(log, event("store", herbivore_list[h_index], None))
    /\ h_index' = h_index + 1
    /\ pc' = after_store(h_index)
    /\ UNCHANGED <<time_step, impl, available_forage, stocking_density_dict, order,
                   args, diet_pre, herd, step>>

\* if (total_biomass - total_intake_step) < threshold_biomass
exceeds(locs, total_intake_step) ==
    RLt(RSub(locs.total_biomass, total_intake_step), locs.threshold_biomass)

\* total_intake_step has been computed and checked against the threshold
offtake_checked(total_intake_step) ==
    /\ locals' = [locals EXCEPT
                    !.threshold_exceeded =
                        IF exceeds(locals, total_intake_step) THEN TRUE ELSE @,
                    !.total_intake_step =
                        IF exceeds(locals, total_intake_step) THEN Zero
                        ELSE total_intake_step]
    /\ log' = Append(log, event("reduce_demand", "herd", total_intake_step))

\* reduce_demand has returned
rationed(dd) ==
    /\ diet_pre' = diet_dict
    /\ diet_dict' = dd
    /\ offtake_checked(calc_total_intake(dd, stocking_density_dict, keys_of(dd)))
    /\ h_index' = 1
    /\ pc' = "integrate"

\* between the loops: reduce_demand on the diets of the herd, the total intake
\* of the step and the management threshold
Ration ==
    /\ pc = "ration"
    /\ LET r == reduce_demand(diet_dict, stocking_density_dict, available_forage,
                              keys_of(diet_dict))
       IN IF r.err # "none"
          THEN /\ pc' = r.err
               /\ UNCHANGED <<h_index, diet_pre, diet_dict, locals, log>>
          ELSE rationed(r.diets)
    /\ UNCHANGED <<time_step, impl, available_forage, stocking_density_dict, order,
                   args, herd, step>>

\* second loop: the diet of the class, zero once the threshold is exceeded
final_diet(h) ==
    IF locals.threshold_exceeded THEN fill_intake_zero(available_forage)
    ELSE diet_dict[h]

\* second loop: diet_interm after the milk check of a lactating female
milk_checked(herb_class, diet_interm) ==
    IF herb_class.sex = "lac_female"
    THEN check_milk_production(get_params(herb_class.type), diet_interm).diet_interm
    ELSE diet_interm

\* delta_W without the floor response: the energy budget of the zero diet
calc_delta_W_no_floor(herb_class, diet_interm) ==
    calc_delta_weight(diet_interm, herb_class)

\* second loop: delta_W
calc_delta_W(herb_class, diet_interm) ==
    IF locals.threshold_exceeded
    THEN IF args.restart_monthly THEN Zero
         ELSE RNeg(convert_step_to_daily(herb_class.W))
    ELSE calc_delta_weight(diet_interm, herb_class)

\* second loop: delta_W_step
calc_delta_W_step(delta_W) ==
    IF not_grazing(args, step) THEN Zero ELSE convert_daily_to_step(delta_W)

\* what the second loop does for one class, in order
integrate_events(herb_class, delta_W_step) ==
    <<event("recompute", herb_class.label, None)>>
    \o (IF herb_class.sex = "lac_female"
        THEN <<event("milk", herb_class.label, None)>> ELSE <<>>)
    \o <<event("delta_W", herb_class.label, delta_W_step),
         event("update", herb_class.label, None)>>

\* herb_class.update(delta_weight=delta_W_step, delta_time=find_days_per_step())
integrated(herb_class, diet, delta_W_step) ==
    /\ diet_dict' = put(diet_dict, herb_class.label, diet)
    /\ herd' = [herd EXCEPT ![herb_class.label] =
                  update(herb_class, delta_W_step, find_days_per_step)]
    /\ log' = log \o integrate_events(herb_class, delta_W_step)

\* second loop, one class: the energy budget of its rationed diet, the milk
\* check, the weight change and the update of the class
Integrate ==
    /\ pc = "integrate"
    /\ args.supp_csv
    /\ \E diet_interm \in calc_diet_intermediates(final_diet(herbivore_list[h_index]),
                                                   herd[herbivore_list[h_index]]) :
          integrated(herd[herbivore_list[h_index]],
                     final_diet(herbivore_list[h_index]),
                     calc_delta_W_step(calc_delta_W(
                         herd[herbivore_list[h_index]],
                         milk_checked(herd[herbivore_list[h_index]], diet_interm))))
    /\ h_index' = h_index + 1
    /\ pc' = after_update(h_index)
    /\ UNCHANGED <<time_step, impl, available_forage, stocking_density_dict, order,
                   args, diet_pre, step, locals>>

\* second loop without 'supp_csv' in args: the zero diet is stored if the
\* threshold is exceeded, and reading supp ends execute
IntegrateUnbound ==
    /\ pc = "integrate"
    /\ ~args.supp_csv
    /\ diet_dict' = put(diet_dict, herbivore_list[h_index],
                        final_diet(herbivore_list[h_index]))
    /\ raise("NameError")
    /\ UNCHANGED <<time_step, impl, available_forage, stocking_density_dict, order,
                   args, h_index, diet_pre, herd, step>>

\* the end of the step: the offtake goes to CENTURY, which returns the pools
\* of the next month
EndStep ==
    /\ pc = "end_step"
    /\ step' = step + 1
    /\ pc' = "begin_step"
    /\ UNCHANGED <<time_step, impl, available_forage, stocking_density_dict, order,
                   args, h_index, diet_pre, diet_dict, herd, locals, log>>

\* one_step: the first selection has returned its diet
one_selected(h, max_intake, sel) ==
    IF sel.err # "none" THEN raise(sel.err)
    ELSE /\ locals' = [locals EXCEPT !.max_intake = max_intake, !.diet = sel.diet]
         /\ log' = Append(log, event("select", h, max_intake))
         /\ pc' = "one_check"

\* one_step up to the first diet selection, intake not forced
OneStepSelect ==
    /\ pc = "one_step"
    /\ IF calc_relative_height(available_forage).err # "none"
       THEN raise(calc_relative_height(available_forage).err)
       ELSE one_selected(herbivore_list[h_index],
                         calc_max_intake(herd[herbivore_list[h_index]]),
                         select_for(herd[herbivore_list[h_index]],
                                    calc_relative_height(available_forage).HR,
                                    calc_max_intake(herd[herbivore_list[h_index]]),
                                    Zero, Zero))
    /\ UNCHANGED <<time_step, impl, available_forage, stocking_density_dict, order,
                   args, h_index, diet_pre, diet_dict, herd, step>>

\* one_step: check_max_intake has returned
one_checked(h, diet_interm, reduced_max_intake) ==
    /\ locals' = [locals EXCEPT !.reduced_max_intake = reduced_max_intake,
                                !.diet_interm = diet_interm]
    /\ log' = Append(log, event("check", h, reduced_max_intake))
    /\ pc' = IF RLt(reduced_max_intake, locals.max_intake)
             THEN "one_reselect" ELSE "one_finish"

\* one_step: the energy budget of the selected diet and, unless the class is
\* a hindgut fermenter, the check of the intake ceiling against it
OneStepCheck ==
    /\ pc = "one_check"
    /\ \E diet_interm \in calc_diet_intermediates(locals.diet,
                                                   herd[herbivore_list[h_index]]) :
          IF herd[herbivore_list[h_index]].type = "hindgut_fermenter"
          THEN /\ locals' = [locals EXCEPT !.diet_interm = diet_interm]
               /\ pc' = "one_finish"
               /\ UNCHANGED log
          ELSE one_checked(herbivore_list[h_index], diet_interm,
                           check_max_intake(locals.diet, diet_interm,
                                            herd[herbivore_list[h_index]],
                                            locals.max_intake))
    /\ UNCHANGED <<time_step, impl, available_forage, stocking_density_dict, order,
                   args, h_index, diet_pre, diet_dict, herd, step>>

\* one_step: the second selection has returned its diet and its budget
one_reselected(h, sel, diet_interm) ==
    /\ locals' = [locals EXCEPT !.diet = sel.diet, !.diet_interm = diet_interm]
    /\ log' = Append(log, event("reselect", h, locals.reduced_max_intake))
    /\ pc' = "one_finish"

\* one_step: the selection with the reduced ceiling and the energy budget of
\* its diet
OneStepReselect ==
    /\ pc = "one_reselect"
    /\ LET sel == select_for(herd[herbivore_list[h_index]],
                             calc_relative_height(available_forage).HR,
                             locals.reduced_max_intake, Zero, Zero)
       IN IF sel.err # "none" THEN raise(sel.err)
          ELSE \E diet_interm \in calc_diet_intermediates(
                                      sel.diet, herd[herbivore_list[h_index]]) :
                  one_reselected(herbivore_list[h_index], sel, diet_interm)
    /\ UNCHANGED <<time_step, impl, available_forage, stocking_density_dict, order,
                   args, h_index, diet_pre, diet_dict, herd, step>>

\* one_step: calc_delta_weight reads NEg1, EVG, Pnet and PCG, which
\* calc_diet_intermediates of forage_utils.py does not set, unless the energy
\* intake is 0; update is then called with delta_weight and delta_time, which
\* update(self, model_step) does not take
OneStepFinish ==
    /\ pc = "one_finish"
    /\ pc' = IF locals.diet_interm.MEItotal = Zero THEN "TypeError"
             ELSE "AttributeError"
    /\ UNCHANGED <<time_step, impl, available_forage, stocking_density_dict, order,
                   args, h_index, diet_pre, diet_dict, herd, step, locals, log>>

ExecNext ==
    \/ OneStepSelect
    \/ OneStepCheck
    \/ OneStepReselect
    \/ OneStepFinish
    \/ BeginStep
    \/ SkipClass
    \/ SelectDiet
    \/ CheckIntake
    \/ Reselect
    \/ StoreDiet
    \/ Ration
    \/ Integrate
    \/ IntegrateUnbound
    \/ EndStep

ExecSpec == ExecInit /\ [][ExecNext]_vars

-----------------------------------------------------------------------------
(* Scenario: calc_delta_weight is called on an energy budget *)

\* herb_class.W, kg: a class that died, a calf, a cow
BudgetWeights == {Zero, Q(20, 1), Q(275, 1)}

\* diet_interm.NEg1, MJ per day
BudgetNEg1 == {Q(10, 1), One, Q(-5, 1), Q(-10, 1)}

\* diet_interm.EVG, MJ per kg
BudgetEVG == {Q(456, 25), Q(-1, 1), Q(-5, 1)}

\* diet_interm.Pnet
BudgetPnet == {One, Q(-1, 2)}

\* diet_interm.MEItotal, MJ per day
BudgetMEI == {Zero, Q(100, 1)}

\* forage_utils._time_step as set_time_step may leave it
BudgetTimeSteps == {"month", "week", "day"}

WeightInit ==
    /\ pc = "budgeted"
    /\ time_step \in BudgetTimeSteps
    /\ impl \in Impls
    /\ available_forage = <<>>
    /\ stocking_density_dict = <<>>
    /\ order = <<>>
    /\ \E NEg1 \in BudgetNEg1, EVG \in BudgetEVG, Pnet \in BudgetPnet,
          MEItotal \in BudgetMEI :
          args = [diet_interm |->
                    [DietIntermediates EXCEPT !.NEg1 = NEg1, !.EVG = EVG,
                                              !.Pnet = Pnet, !.PCG = Q(1, 5),
                                              !.MEItotal = MEItotal]]
    /\ h_index = 0
    /\ diet_pre = <<>>
    /\ diet_dict = <<>>
    /\ \E weight \in BudgetWeights, type \in SecondTypes :
          herd = [h \in {"sheep"} |->
                    [HerbivoreClass(herbivore_input(h, weight, "castrate", type))
                        EXCEPT !.W = weight]]
    /\ step = 0
    /\ locals = [delta_W |-> None]
    /\ log = <<>>

\* delta_W = calc_delta_weight(diet_interm, herb_class)
DeltaWeight ==
    /\ pc = "budgeted"
    /\ locals' = [locals EXCEPT
                    !.delta_W = calc_delta_weight(args.diet_interm, herd["sheep"])]
    /\ pc' = "returned"
    /\ UNCHANGED <<time_step, impl, available_forage, stocking_density_dict, order,
                   args, h_index, diet_pre, diet_dict, herd, step, log>>

WeightNext == DeltaWeight

WeightSpec == WeightInit /\ [][WeightNext]_vars

-----------------------------------------------------------------------------
(* Scenario: one class grazes a single pool, without supplement *)

\* the digestibility of the pool
SingleDigest == {Q(3, 10), Q(3, 5), Q(4, 5)}

\* the biomass of the pool, kg per ha
SingleBiomass == {Q(1000, 1), Q(2000, 1)}

\* the weight of a cattle class, kg
SingleWeights == {Q(20, 1), Q(275, 1), Q(400, 1)}

\* the sex of a cattle class: neither is reproductive
SingleSexes == {"castrate", "entire_m"}

\* the list calc_feed_types builds from one green C3 grass
SinglePool(digestibility, biomass) ==
    << [label |-> "grass", green_or_dead |-> "green", biomass |-> biomass,
        biomass_avail |-> biomass, digestibility |-> digestibility,
        crude_protein |-> Q(1, 10), SF |-> Zero, rel_availability |-> One] >>

SingleInit ==
    /\ pc = "single"
    /\ time_step = "month"
    /\ impl \in Impls
    /\ \E digestibility \in SingleDigest, biomass \in SingleBiomass :
          available_forage = SinglePool(digestibility, biomass)
    /\ stocking_density_dict = <<>>
    /\ \E h \in Classes : order = <<h>>
    /\ args = [prop_legume |-> Zero, supp_available |-> FALSE, supp |-> None,
               force_supp |-> FALSE]
    /\ h_index = 1
    /\ diet_pre = <<>>
    /\ diet_dict = <<>>
    /\ \E w \in SingleWeights, sex \in SingleSexes, type \in SecondTypes :
          herd = [h \in {order[1]} |->
                    IF impl = "natcap"
                    THEN update(HerbivoreClass(herbivore_input(h, w, sex, type)),
                                Zero, Zero)
                    ELSE construct(herbivore_input(h, w, sex, type))]
    /\ step = 0
    /\ locals = [max_intake |-> None]
    /\ log = <<>>

\* the diet is stored, or the exception ends the run
single_selected(h, max_intake, sel) ==
    IF sel.err # "none"
    THEN /\ pc' = sel.err
         /\ UNCHANGED <<locals, diet_dict>>
    ELSE /\ locals' = [locals EXCEPT !.max_intake = max_intake]
         /\ diet_dict' = put(diet_dict, h, sel.diet)
         /\ pc' = "single_selected"

\* max_intake = herb_class.calc_max_intake(); ZF = herb_class.calc_ZF();
\* HR = calc_relative_height(available_forage); diet = diet_selection_t2(...)
SelectSingle ==
    /\ pc = "single"
    /\ single_selected(order[1], calc_max_intake(herd[order[1]]),
                       select_for(herd[order[1]],
                                  calc_relative_height(available_forage).HR,
                                  calc_max_intake(herd[order[1]]),
                                  herd[order[1]].f_w, herd[order[1]].q_w))
    /\ UNCHANGED <<time_step, impl, available_forage, stocking_density_dict, order,
                   args, h_index, diet_pre, herd, step, log>>

SingleNext == SelectSingle

SingleSpec == SingleInit /\ [][SingleNext]_vars

-----------------------------------------------------------------------------
(* Scenario: the pools are created and then grown step by step *)

\* the number of update_feed_types calls of a run
MaxGrowthSteps == 2

\* 'aglivc' and 'stdedc' of the CENTURY outputs, g per square m
GM2Values == {Q(50, 1), Q(100, 1)}

\* a row of grass_csv with the CENTURY outputs of the month
Grass(label, green_gm2, dead_gm2, percent_biomass) ==
    [label |-> label, type |-> "C3", percent_biomass |-> percent_biomass,
     green_gm2 |-> green_gm2, dead_gm2 |-> dead_gm2,
     prev_g_gm2 |-> green_gm2, prev_d_gm2 |-> dead_gm2,
     DMD_green |-> Q(3, 5), DMD_dead |-> Q(2, 5),
     cprotein_green |-> Q(1, 10), cprotein_dead |-> Q(1, 20)]

\* one grass, or two grasses of half the initial biomass each
GrassLists ==
    {<<Grass("grass1", g, d, One)>> : g \in GM2Values, d \in GM2Values} \cup
    {<<Grass("grass1", g1, d1, Q(1, 2)), Grass("grass2", g2, d2, Q(1, 2))>> :
        g1 \in GM2Values, d1 \in GM2Values, g2 \in GM2Values, d2 \in GM2Values}

\* "grass['prev_g_gm2'] = grass['green_gm2'] ..." with the outputs of the month
read_outputs(grass, green_gm2, dead_gm2) ==
    [grass EXCEPT !.prev_g_gm2 = grass.green_gm2, !.prev_d_gm2 = grass.dead_gm2,
                  !.green_gm2 = green_gm2, !.dead_gm2 = dead_gm2]

FeedInit ==
    /\ pc = "grass_read"
    /\ time_step = "month"
    /\ impl \in Impls
    /\ available_forage = <<>>
    /\ stocking_density_dict = <<>>
    /\ order = <<>>
    /\ \E grass_list \in GrassLists : args = [grass_list |-> grass_list]
    /\ h_index = 0
    /\ diet_pre = <<>>
    /\ diet_dict = <<>>
    /\ herd = <<>>
    /\ step = 0
    /\ locals = <<>>
    /\ log = <<>>

\* step 0: available_forage = calc_feed_types(grass_list)
CalcFeedTypes ==
    /\ pc = "grass_read"
    /\ available_forage' = calc_feed_types(args.grass_list)
    /\ pc' = "pools_created"
    /\ UNCHANGED <<time_step, impl, stocking_density_dict, order, args, h_index,
                   diet_pre, diet_dict, herd, step, locals, log>>

\* a later step: the outputs of the month are read and
\* available_forage = update_feed_types(grass_list, available_forage)
UpdateFeedTypes ==
    /\ pc \in {"pools_created", "pools_updated"}
    /\ step < MaxGrowthSteps
    /\ \E new \in [DOMAIN args.grass_list -> GM2Values \X GM2Values] :
          LET grass_list == [g \in DOMAIN args.grass_list |->
                               read_outputs(args.grass_list[g], new[g][1], new[g][2])]
          IN /\ args' = [args EXCEPT !.grass_list = grass_list]
             /\ available_forage' = update_feed_types(grass_list, available_forage)
    /\ step' = step + 1
    /\ pc' = "pools_updated"
    /\ UNCHANGED <<time_step, impl, stocking_density_dict, order, h_index,
                   diet_pre, diet_dict, herd, locals, log>>

FeedNext == CalcFeedTypes \/ UpdateFeedTypes

FeedSpec == FeedInit /\ [][FeedNext]_vars

-----------------------------------------------------------------------------
(* Scenario: calc_diet_intermediates is called on a diet *)

\* Supplement(FreerParamCattle('indicus'), 0, 0, 0, 0, 0, 0), the default of
\* supp in forage_utils.py
default_supp == [DMD |-> Zero, EE |-> Zero, CP |-> Zero, dg |-> Zero]

\* "herb_class.W ** 0.75" for the weights 0, 16, 81 and 256 kg
pow_W(W) ==
    IF W = Zero THEN Zero
    ELSE IF W = Q(16, 1) THEN Q(8, 1)
    ELSE IF W = Q(81, 1) THEN Q(27, 1)
    ELSE Q(64, 1)

\* eq 31: herbage
calc_MEIf(diet) == RMul(RSub(RMul(Q(17, 1), diet.DMDf), Q(2, 1)), diet.If)

\* eq 32
calc_MEIs(diet, supp) ==
    RMul(RAdd(RAdd(RMul(Q(133, 10), supp.DMD), RMul(Q(234, 10), supp.EE)),
              Q(132, 100)),
         diet.Is)

\* eq 32, supp.EE = 0
calc_FMEIs(diet, supp) ==
    RMul(RAdd(RMul(Q(133, 10), supp.DMD), Q(132, 100)), diet.Is)

\* M_per_Dforage, 0 on ZeroDivisionError
calc_M_per_Dforage(MEIf, diet) ==
    IF diet.If = Zero THEN Zero ELSE RDiv(MEIf, diet.If)

\* eq 33
calc_km(FParam, M_per_Dforage) == RAdd(FParam.CK1, RMul(FParam.CK2, M_per_Dforage))

calc_Emetab(FParam, herb_class) ==
    RMul(RMul(FParam.CM2, pow_W(herb_class.W)),
         RMax(exp(RMul(RNeg(FParam.CM3), herb_class.A)), FParam.CM4))

calc_Egraze(FParam, herb_class, diet) ==
    RAdd(RMul(RMul(RMul(FParam.CM6, herb_class.W), diet.If),
              RSub(FParam.CM7, diet.DMDf)),
         RMul(RMul(FParam.CM16, herb_class.D), herb_class.W))

\* the correction of MEm for the sex of the class
sex_MEm(sex, MEm) ==
    IF sex \in {"castrate", "entire_m"} THEN RMul(MEm, Q(115, 100))
    ELSE IF sex = "herd_average" THEN RMul(MEm, Q(1055, 1000))
    ELSE IF sex = "NA" THEN RMul(RAdd(MEm, RMul(MEm, Q(115, 100))), Q(1, 2))
    ELSE MEm

\* eq 41, energy req for maintenance
calc_MEm(FParam, herb_class, diet, km, MEItotal) ==
    sex_MEm(herb_class.sex,
            RAdd(RDiv(RAdd(calc_Emetab(FParam, herb_class),
                           calc_Egraze(FParam, herb_class, diet)), km),
                 RMul(FParam.CM1, MEItotal)))

\* eq 51, with RF = 1 at the latitude 0 of the default site
calc_RDPR(FParam, L, MEIf, FMEIs) ==
    RMul(RAdd(FParam.CRD4,
              RMul(FParam.CRD5,
                   RSub(One, exp(RMul(RNeg(FParam.CRD6), RAdd(L, One)))))),
         RAdd(MEIf, FMEIs))

\* the record the function fills once L is known
filled(FParam, diet, supp, L, MEm, MEIf, FMEIs, MEItotal) ==
    [L |-> L, RDPR |-> calc_RDPR(FParam, L, MEIf, FMEIs),
     RDPIs |-> RMul(RMul(supp.CP, supp.dg), diet.Is),
     RDPIf |-> RMul(diet.CPIf, RMin(RAdd(RMul(Q(84, 100), diet.DMDf), Q(33, 100)), One)),
     MEm |-> MEm, MEItotal |-> MEItotal]

\* calc_diet_intermediates of forage_utils.py from "diet_interm.L =" on:
\* MEItotal / MEm divides by zero when MEm is 0, and math.log(herb_class.W)
\* in eq 46 of cattle and hindgut fermenters needs a positive weight
budget_from(FParam, diet, supp, herb_class, MEm, MEIf, FMEIs, MEItotal) ==
    IF MEm = Zero THEN [err |-> "ZeroDivisionError", diet_interm |-> None]
    ELSE IF herb_class.type # "sheep" /\ ~RLt(Zero, herb_class.W)
    THEN [err |-> "ValueError", diet_interm |-> None]
    ELSE [err |-> "none",
          diet_interm |-> filled(FParam, diet, supp, RSub(RDiv(MEItotal, MEm), One),
                                 MEm, MEIf, FMEIs, MEItotal)]

\* calc_diet_intermediates of forage_utils.py up to MEm
budget_of(FParam, diet, supp, herb_class, MEIf, MEItotal) ==
    budget_from(FParam, diet, supp, herb_class,
                calc_MEm(FParam, herb_class, diet,
                         calc_km(FParam, calc_M_per_Dforage(MEIf, diet)), MEItotal),
                MEIf, calc_FMEIs(diet, supp), MEItotal)

\* calc_diet_intermediates of forage_utils.py: the early return for a diet
\* without intake is commented out
diet_intermediates(diet, herb_class, supp) ==
    budget_of(get_params(herb_class.type), diet, supp, herb_class, calc_MEIf(diet),
              RAdd(calc_MEIf(diet), calc_MEIs(diet, supp)))

\* what the call may return or raise, by package
intermediates_for(diet, herb_class) ==
    IF impl = "natcap"
    THEN {[err |-> "none", diet_interm |-> di] :
             di \in calc_diet_intermediates(diet, herb_class)}
    ELSE {diet_intermediates(diet, herb_class, default_supp)}

\* herb_class.W, kg
IntermWeights == {Zero, Q(16, 1), Q(81, 1), Q(256, 1)}

\* herb_class.A, days
IntermAges == {Zero, Q(3000, 1)}

\* herb_class.D, km: as constructed, as calc_distance_walked may set it
IntermDistances == {Q(-1, 1), Zero, Q(4, 1)}

\* the diets: nothing eaten, or 5 kg of forage of digestibility 0.6
IntermDiets ==
    {fill_intake_zero(<<>>),
     [fill_intake_zero(<<>>) EXCEPT !.If = Q(5, 1), !.DMDf = Q(3, 5),
                                    !.CPIf = Q(1, 2)]}

IntermInit ==
    /\ pc = "selected"
    /\ time_step = "month"
    /\ impl \in Impls
    /\ available_forage = <<>>
    /\ stocking_density_dict = <<>>
    /\ order = <<>>
    /\ \E diet \in IntermDiets : args = [diet |-> diet]
    /\ h_index = 0
    /\ diet_pre = <<>>
    /\ diet_dict = <<>>
    /\ \E weight \in IntermWeights, type \in SecondTypes \cup {"B_indicus"},
          sex \in SingleSexes, age \in IntermAges, D \in IntermDistances :
          herd = [h \in {"sheep"} |->
                    [HerbivoreClass(herbivore_input(h, weight, sex, type))
                        EXCEPT !.W = weight, !.A = age, !.sex = sex]
                    @@ [D |-> D]]
    /\ step = 0
    /\ locals = [diet_interm |-> None]
    /\ log = <<>>

\* diet_interm = calc_diet_intermediates(diet, ...), or the exception it raises
CalcDietIntermediates ==
    /\ pc = "selected"
    /\ \E r \in intermediates_for(args.diet, herd["sheep"]) :
          /\ pc' = IF r.err # "none" THEN r.err ELSE "budgeted"
          /\ locals' = [locals EXCEPT !.diet_interm = r.diet_interm]
    /\ UNCHANGED <<time_step, impl, available_forage, stocking_density_dict, order,
                   args, h_index, diet_pre, diet_dict, herd, step, log>>

IntermNext == CalcDietIntermediates

IntermSpec == IntermInit /\ [][IntermNext]_vars

-----------------------------------------------------------------------------
(* Scenario: diet_selection_t2 is called with the relative heights given *)

\* the pools of calc_feed_types once update_feed_types of the natcap package
\* has set their biomass to b1 and b2: rel_availability is that of step 0
GrownPools(d1, b1, d2, b2) ==
    [i \in 1..2 |->
        [FeedTypes(d1, Q(1000, 1), d2, Q(1000, 1))[i] EXCEPT
            !.biomass = IF i = 1 THEN b1 ELSE b2,
            !.biomass_avail = IF i = 1 THEN b1 ELSE b2]]

\* the biomass of the green and of the dead pool: both empty, one empty, none
CallBiomass == {<<Zero, Zero>>, <<Q(1000, 1), Zero>>, <<Q(1000, 1), Q(500, 1)>>}

\* HR as the caller passes it: calc_relative_height of the pools, or a list of
\* zeros where that function cannot be evaluated
given_HR(forage) ==
    IF calc_relative_height(forage).err = "none" THEN calc_relative_height(forage).HR
    ELSE [i \in DOMAIN forage |-> Zero]

CallInit ==
    /\ pc = "select"
    /\ time_step = "month"
    /\ impl \in Impls
    /\ \E d1 \in DigestValues, d2 \in DigestValues, b \in CallBiomass :
          available_forage = GrownPools(d1, b[1], d2, b[2])
    /\ stocking_density_dict = <<>>
    /\ order = <<"cattle">>
    /\ \E so \in SuppOffers, fw \in WeightValues, qw \in WeightValues,
          im \in ImaxValues :
          args = [prop_legume |-> Zero, supp_available |-> so[1], supp |-> so[2],
                  force_supp |-> FALSE, animal |-> Animals(im, fw, qw),
                  HR |-> given_HR(available_forage)]
    /\ h_index = 1
    /\ diet_dict = <<>>
    /\ diet_pre = <<>>
    /\ herd = <<>>
    /\ step = 0
    /\ locals = <<>>
    /\ log = <<>>

\* diet_selection_t2 has returned or raised
called(h, sel) ==
    /\ pc' = IF sel.err # "none" THEN sel.err ELSE "selected"
    /\ diet_dict' = IF sel.err # "none" THEN diet_dict ELSE put(diet_dict, h, sel.diet)

\* diet = diet_selection_t2(ZF, HR, prop_legume, supp_available, ...)
CallSelection ==
    /\ pc = "select"
    /\ called("cattle",
              diet_selection_t2(args.animal["cattle"].ZF, args.HR, args.prop_legume,
                                args.supp_available, args.animal["cattle"].Imax,
                                get_params(args.animal["cattle"].type),
                                available_forage, args.animal["cattle"].f_w,
                                args.animal["cattle"].q_w, args.force_supp,
                                args.supp))
    /\ UNCHANGED <<time_step, impl, available_forage, stocking_density_dict, order,
                   args, h_index, diet_pre, herd, step, locals, log>>

CallNext == CallSelection

CallSpec == CallInit /\ [][CallNext]_vars

-----------------------------------------------------------------------------
(* Scenario: check_max_intake is called on a selected diet and its budget *)

\* max_intake, kg per day: calc_max_intake gave nothing, or a ceiling
CheckCeilings == {Zero, Q(10, 1), Q(12, 1)}

\* diet.DMDf of a diet that holds something
CheckDigestibilities == {Q(2, 5), Q(4, 5)}

\* budgets of a diet with a positive energy intake: L = MEItotal / MEm - 1
\* lies above -1, the protein intakes RDPIf and RDPIs are not negative and
\* the requirement RDPR is positive (eq 109-115)
FedBudgets ==
    {[DietIntermediates EXCEPT !.L = L, !.RDPIf = RDPIf, !.RDPIs = RDPIs,
                               !.RDPR = RDPR] :
        L \in {Q(-1, 2), Zero, One, Q(2, 1)}, RDPIf \in {Zero, Q(1, 4), Q(1, 2)},
        RDPIs \in {Zero, Q(1, 10)}, RDPR \in {Q(1, 4), Q(1, 2), One}}

\* budgets of a diet of digestibility under 2/17, whose energy intake is
\* negative: L lies under -1 and RDPR is negative
UnfedBudgets ==
    {[DietIntermediates EXCEPT !.L = Q(-3, 2), !.RDPIf = RDPIf, !.RDPIs = Zero,
                               !.RDPR = Q(-1, 4)] :
        RDPIf \in {Zero, Q(1, 4)}}

\* the calls check_max_intake gets: under a ceiling of 0 nothing was selected
\* (diet_selection_t2 returns the empty diet for Imax = 0) and the budget is
\* the one of the empty diet
CheckCalls ==
    {[diet |-> fill_intake_zero(<<>>), diet_interm |-> DietIntermediates,
      max_intake |-> Zero]}
    \cup {[diet |-> [fill_intake_zero(<<>>) EXCEPT !.If = Q(5, 1), !.DMDf = DMDf],
           diet_interm |-> di, max_intake |-> max_intake] :
             DMDf \in CheckDigestibilities, di \in FedBudgets,
             max_intake \in CheckCeilings \ {Zero}}
    \cup {[diet |-> [fill_intake_zero(<<>>) EXCEPT !.If = Q(5, 1),
                                                   !.DMDf = Q(1, 20)],
           diet_interm |-> di, max_intake |-> max_intake] :
             di \in UnfedBudgets, max_intake \in CheckCeilings \ {Zero}}

CheckInit ==
    /\ pc = "budgeted"
    /\ time_step = "month"
    /\ impl \in Impls
    /\ available_forage = <<>>
    /\ stocking_density_dict = <<>>
    /\ order = <<>>
    /\ \E call \in CheckCalls :
          /\ args = [diet |-> call.diet, max_intake |-> call.max_intake]
          /\ locals = [diet_interm |-> call.diet_interm, reduced |-> None]
    /\ h_index = 0
    /\ diet_pre = <<>>
    /\ diet_dict = <<>>
    /\ \E type \in {"B_taurus", "B_indicus", "sheep"} :
          herd = [h \in {"sheep"} |->
                    HerbivoreClass(herbivore_input(h, Q(256, 1), "castrate", type))]
    /\ step = 0
    /\ log = <<>>

\* reduced_max_intake = check_max_intake(diet, diet_interm, herb_class,
\* max_intake)
CheckMaxIntake ==
    /\ pc = "budgeted"
    /\ pc' = "ceiling_checked"
    /\ locals' = [locals EXCEPT !.reduced =
                    check_max_intake(args.diet, locals.diet_interm, herd["sheep"],
                                     args.max_intake)]
    /\ UNCHANGED <<time_step, impl, available_forage, stocking_density_dict, order,
                   args, h_index, diet_pre, diet_dict, herd, step, log>>

CheckNext == CheckMaxIntake

CheckSpec == CheckInit /\ [][CheckNext]_vars

-----------------------------------------------------------------------------
(* Scenario: the pools are restricted to the management threshold and the
   demand is rationed to them *)

\* management_threshold, kg per ha
RestrictThresholds == {Zero, Q(950, 1), Q(1500, 1), Q(3000, 1)}

\* the pools of one grass as calc_feed_types makes them, those pools grown by
\* update_feed_types to the outputs of the next month, and the pools of two
\* grasses grown by it
RestrictPools ==
    {calc_feed_types(<<Grass("grass", g, d, One)>>) :
        g \in GM2Values, d \in GM2Values}
    \cup {update_feed_types(<<read_outputs(Grass("grass", Q(50, 1), Q(50, 1), One),
                                           g, d)>>,
                            calc_feed_types(<<Grass("grass", Q(50, 1), Q(50, 1),
                                                    One)>>)) :
             g \in GM2Values, d \in GM2Values}
    \cup {update_feed_types(
             <<read_outputs(Grass("grass", Q(50, 1), Q(50, 1), Q(1, 2)), g, d),
               read_outputs(Grass("grass2", Q(50, 1), Q(50, 1), Q(1, 2)), d, g)>>,
             calc_feed_types(<<Grass("grass", Q(50, 1), Q(50, 1), Q(1, 2)),
                               Grass("grass2", Q(50, 1), Q(50, 1), Q(1, 2))>>)) :
             g \in GM2Values, d \in GM2Values}

\* restrict_forage: what may be taken of all pools together
actually_available(forage, management_threshold) ==
    RMax(RSub(RSum([i \in DOMAIN forage |-> forage[i].biomass]),
              management_threshold),
         Zero)

\* the threshold ignored: every pool may be taken whole
restrict_nothing(forage, management_threshold) ==
    [i \in DOMAIN forage |->
        [forage[i] EXCEPT !.biomass_avail = forage[i].biomass]]

restrict_available_forage(forage, management_threshold) ==
    [i \in DOMAIN forage |->
        [forage[i] EXCEPT
            !.biomass_avail =
                RMul(forage[i].rel_availability,
                     actually_available(forage, management_threshold))]]

RestrictInit ==
    /\ pc = "pools_ready"
    /\ time_step = "month"
    /\ impl = "forage_utils"
    /\ available_forage \in RestrictPools
    /\ stocking_density_dict \in [Classes -> DensityValues]
    /\ order \in Orders
    /\ \E f \in [Classes -> {Zero, Q(2, 1)} \X {Zero, One}] :
          diet_dict = [h \in Classes |->
                         GivenDiet(available_forage, f[h][1], f[h][2])]
    /\ diet_pre = diet_dict
    /\ \E management_threshold \in RestrictThresholds :
          args = [management_threshold |-> management_threshold]
    /\ h_index = 0
    /\ herd = <<>>
    /\ step = 0
    /\ locals = <<>>
    /\ log = <<>>

\* available_forage = restrict_available_forage(available_forage,
\* management_threshold), before the demand is rationed
RestrictAvailableForage ==
    /\ pc = "pools_ready"
    /\ available_forage' =
          restrict_available_forage(available_forage, args.management_threshold)
    /\ pc' = "selected"
    /\ UNCHANGED <<time_step, impl, stocking_density_dict, order, args, h_index,
                   diet_pre, diet_dict, herd, step, locals, log>>

RestrictNext ==
    \/ RestrictAvailableForage
    \/ ReduceDemand

RestrictSpec == RestrictInit /\ [][RestrictNext]_vars

-----------------------------------------------------------------------------
(* Scenario: the first loop of a grazing month for classes with quality and
   quantity weights *)

\* standing biomass of the green and of the dead pool, kg per ha
ReselectBiomass ==
    {<<Q(1000, 1), Q(1000, 1)>>, <<Q(1000, 1), Q(500, 1)>>,
     <<Q(2000, 1), Q(2000, 1)>>}

\* herd.f_w and herd.q_w as __init__ takes them from 'quant_weight' and
\* 'qual_weight' of herbivore_csv; a supplement on offer goes with a quality
\* weight of 0 in the scenario
weighted_class(herb_class, f_w, q_w) ==
    [herb_class EXCEPT !.f_w = f_w, !.q_w = q_w]

ReselectInit ==
    /\ impl = "natcap"
    /\ pc = "select"
    /\ time_step = "month"
    /\ \E b \in ReselectBiomass :
          available_forage = FeedTypes(Q(4, 5), b[1], Q(3, 10), b[2])
    /\ \E sd \in ExecDensities : stocking_density_dict = [h \in Classes |-> sd]
    /\ order = herbivore_list
    /\ \E so \in ExecSupps :
          /\ so[1]
          /\ args = [num_months |-> 1, grz_months |-> [given |-> FALSE, months |-> {}],
                     outputs |-> Steady, restart_monthly |-> FALSE,
                     supp_csv |-> so[1], supp_available |-> so[2], supp |-> so[3],
                     mgmt_threshold |-> Zero, prop_legume |-> Zero,
                     force_supp |-> FALSE]
    /\ \E f_w \in WeightValues, q_w \in WeightValues :
          /\ args.supp_available => q_w = Zero
          /\ herd = [h \in Classes |->
                    weighted_class(
                        update(HerbivoreClass(herbivore_input(h, Q(275, 1), "castrate",
                                                              "sheep")),
                               Zero, Zero),
                        f_w, q_w)]
    /\ h_index = 1
    /\ diet_dict = <<>>
    /\ diet_pre = <<>>
    /\ step = 0
    /\ locals = ExecLocals
    /\ log = <<>>

ReselectNext ==
    \/ SelectDiet
    \/ CheckIntake
    \/ Reselect
    \/ StoreDiet

ReselectSpec == ReselectInit /\ [][ReselectNext]_vars

-----------------------------------------------------------------------------
(* Scenario: a breeding female is updated once per model step *)

\* the number of model steps of a run
MaxBreedSteps == 30

\* 'conception_step' of herbivore_csv
ConceptionSteps == {0, 2, 5}

\* 'calving_interval' and 'lactation_duration' of herbivore_csv, months: a
\* cycle filled by pregnancy and lactation, and cycles with months of neither
BreedingCycles == {<<12, 3>>, <<14, 3>>, <<16, 6>>}

\* W_c of eq 62, kg: its parameters CP1 to CP15 belong to the parameter
\* module of forage_utils.py; the weight of the conceptus is left open
ConceptusWeights == {One, Q(20, 1)}

\* __init__ of forage_utils.py for sex 'breeding_female'
construct_breeding_female(inputs_dict, conception_step, cycle) ==
    construct(inputs_dict)
    @@ [conception_step |-> conception_step, calving_interval |-> cycle[1],
        lactation_duration |-> cycle[2], reproductive_status |-> None,
        A_foet |-> 0, A_y |-> 0]

\* the branches of update(model_step) by cycle_month_index; months_of_pregnancy
\* is 9
update_in_cycle(herb_class, cycle_month_index, W_c) ==
    IF cycle_month_index < 9
    THEN [herb_class EXCEPT !.reproductive_status = "pregnant",
                            !.A_foet = cycle_month_index * 30 + 1,
                            !.W = RAdd(herb_class.Wprev, W_c)]
    ELSE IF cycle_month_index < 9 + herb_class.lactation_duration
    THEN [herb_class EXCEPT !.reproductive_status = "lactating",
                            !.W = herb_class.Wprev,
                            !.A_y = (cycle_month_index - 9) * 30 + 1]
    ELSE [herb_class EXCEPT !.reproductive_status = None,
                            !.W = herb_class.Wprev, !.A_foet = 0, !.A_y = 0]

\* HerbivoreClass.update(model_step) of forage_utils.py for a breeding female:
\* Python's % gives an index in 0..calving_interval-1 for a negative
\* difference too
update_breeding_female(herb_class, model_step, W_c) ==
    update_in_cycle(
        herb_class,
        (model_step - herb_class.conception_step) % herb_class.calving_interval,
        W_c)

BreedInit ==
    /\ pc = "constructed"
    /\ time_step = "month"
    /\ impl = "forage_utils"
    /\ available_forage = <<>>
    /\ stocking_density_dict = <<>>
    /\ order = <<>>
    /\ args = "none"
    /\ h_index = 0
    /\ diet_pre = <<>>
    /\ diet_dict = <<>>
    /\ \E conception_step \in ConceptionSteps, cycle \in BreedingCycles :
          herd = [h \in {"cattle"} |->
                    construct_breeding_female(
                        herbivore_input(h, Q(275, 1), "breeding_female", "B_indicus"),
                        conception_step, cycle)]
    /\ step = 0
    /\ locals = <<>>
    /\ log = <<>>

\* herb_class.update(step), once per model step
UpdateBreedingFemale ==
    /\ pc \in {"constructed", "bred"}
    /\ step < MaxBreedSteps
    /\ \E W_c \in ConceptusWeights :
          herd' = [herd EXCEPT !["cattle"] = update_breeding_female(@, step, W_c)]
    /\ log' = <<[op |-> "update_model_step", model_step |-> step,
                 before |-> herd["cattle"]]>>
    /\ step' = step + 1
    /\ pc' = "bred"
    /\ UNCHANGED <<time_step, impl, available_forage, stocking_density_dict, order,
                   args, h_index, diet_pre, diet_dict, locals>>

BreedNext == UpdateBreedingFemale

BreedSpec == BreedInit /\ [][BreedNext]_vars

-----------------------------------------------------------------------------
(* Properties of demand rationing *)

RECURSIVE SumValues(_)
SumValues(f) ==
    IF DOMAIN f = {} THEN Zero
    ELSE LET k == CHOOSE k \in DOMAIN f : TRUE
         IN RAdd(f[k], SumValues([x \in DOMAIN f \ {k} |-> f[x]]))

\* what the herd asks of a pool in one step: per-individual daily intake,
\* converted to the step, times the stocking density, summed over the classes
AggregateDemand(dd, feed_type) ==
    SumValues([h \in DOMAIN dd |->
                 RMul(convert_daily_to_step(dd[h].intake[label_string(feed_type)]),
                      stocking_density_dict[h])])

Rationed == pc \in {"rationed", "rationed_twice"}

Oversubscribed(dd, feed_type) ==
    RLt(available_of(feed_type), AggregateDemand(dd, feed_type))

\* C1: after reduce_demand, for every pool the aggregate demand of the classes
\* (step intake times stocking density, summed) is at most the pool's
\* available biomass
C1_DemandWithinAvailable ==
    Rationed =>
        \A i \in DOMAIN available_forage :
            RLe(AggregateDemand(diet_dict, available_forage[i]),
                available_of(available_forage[i]))

\* a pool was oversubscribed and has been rationed down to its availability
C1_Witness ==
    /\ pc = "rationed"
    /\ \E i \in DOMAIN available_forage :
          /\ Oversubscribed(diet_pre, available_forage[i])
          /\ RLt(Zero, available_of(available_forage[i]))
          /\ AggregateDemand(diet_dict, available_forage[i])
                = available_of(available_forage[i])

\* C2: when the aggregate demand on a pool exceeds its available biomass by a
\* factor k > 1, every class of positive stocking density ends with its
\* pre-ration intake of that pool divided by k, the same k for every class
C2_ProportionalRationing ==
    pc = "rationed" =>
        \A i \in DOMAIN available_forage :
            LET ft == available_forage[i]
                l == label_string(ft)
            IN (Oversubscribed(diet_pre, ft) /\ RLt(Zero, available_of(ft))) =>
                  LET k == RDiv(AggregateDemand(diet_pre, ft), available_of(ft))
                  IN \A h \in DOMAIN diet_dict :
                        RLt(Zero, stocking_density_dict[h]) =>
                            diet_dict[h].intake[l] = RDiv(diet_pre[h].intake[l], k)

\* two classes of different demand share an oversubscribed pool
C2_Witness ==
    /\ pc = "rationed"
    /\ \E i \in DOMAIN available_forage :
          LET ft == available_forage[i]
              l == label_string(ft)
          IN /\ Oversubscribed(diet_pre, ft)
             /\ RLt(Zero, available_of(ft))
             /\ \A h \in Classes : RLt(Zero, stocking_density_dict[h])
             /\ RLt(diet_pre["cattle"].intake[l], diet_pre["sheep"].intake[l])
             /\ RLt(Zero, diet_dict["cattle"].intake[l])
             /\ RLt(diet_dict["cattle"].intake[l], diet_pre["cattle"].intake[l])

\* C3: reduce_demand applied to the diets it produced, with the same stocking
\* densities and pools, changes no per-pool intake and no aggregate
C3_RationingIdempotent ==
    pc = "rationed_twice" => diet_dict = diet_pre

\* the second call ran on diets that the first call had reduced
C3_Witness ==
    /\ pc = "rationed_twice"
    /\ \E i \in DOMAIN available_forage, h \in Classes :
          LET ft == available_forage[i]
          IN /\ RLt(Zero, diet_dict[h].intake[label_string(ft)])
             /\ AggregateDemand(diet_dict, ft) = available_of(ft)
             /\ RLt(Zero, diet_dict[h].If)

\* C4: whatever the order in which the classes are iterated, reduce_demand
\* ends with the same diets (or fails alike)
C4_OrderIndependent ==
    (Rationed \/ pc = "ZeroDivisionError") =>
        \A keys \in Orders :
            LET r == reduce_demand(diet_pre, stocking_density_dict,
                                   available_forage, keys)
            IN IF pc = "ZeroDivisionError" THEN r.err = "ZeroDivisionError"
               ELSE r.err = "none" /\ r.diets = diet_dict

\* the classes were iterated sheep first and a pool was rationed
C4_Witness ==
    /\ pc = "rationed"
    /\ order = <<"sheep", "cattle">>
    /\ diet_dict # diet_pre
    /\ \E i \in DOMAIN available_forage :
          /\ Oversubscribed(diet_pre, available_forage[i])
          /\ RLt(Zero, diet_dict["cattle"].intake[label_string(available_forage[i])])

-----------------------------------------------------------------------------
(* Properties of diet selection *)

Selected(h) == h \in DOMAIN diet_dict

BeforeRationing == pc \in {"select", "selected"}

\* C5: the diet returned by diet_selection_t2 has a non-negative intake for
\* every pool, and the keys of its intake mapping are exactly the labels of
\* the pools passed in
C5_NonNegativeIntakeExactKeys ==
    BeforeRationing =>
        \A h \in DOMAIN diet_dict :
            /\ DOMAIN diet_dict[h].intake = Labels(available_forage)
            /\ \A l \in DOMAIN diet_dict[h].intake :
                  RLe(Zero, diet_dict[h].intake[l])

\* C6: the forage intake If of a diet is the sum of the values of its intake
\* mapping, for a diet selected under a positive ceiling and for every diet
\* that reduce_demand has processed
C6_IntakeSumsToIf ==
    \A h \in DOMAIN diet_dict :
        (Rationed \/ (BeforeRationing /\ RLt(Zero, args.animal[h].Imax))) =>
            diet_dict[h].If = SumValues(diet_dict[h].intake)

\* a diet over two pools, selected and then cut by rationing
C6_Witness ==
    /\ pc = "rationed"
    /\ \E h \in DOMAIN diet_dict :
          /\ RLt(Zero, args.animal[h].Imax)
          /\ \A l \in DOMAIN diet_dict[h].intake : RLt(Zero, diet_dict[h].intake[l])
          /\ RLt(diet_dict[h].If, diet_pre[h].If)

\* C7: with an intake ceiling of 0, diet_selection_t2 raises nothing and
\* returns a diet of zero intake for every pool passed in, with zero forage
\* and supplement intake
C7_ZeroCeilingZeroDiet ==
    \A h \in Classes :
        args.animal[h].Imax = Zero =>
            /\ ~(pc = "ZeroDivisionError" /\ herbivore_list[h_index] = h)
            /\ (Selected(h) /\ BeforeRationing) =>
                  /\ DOMAIN diet_dict[h].intake = Labels(available_forage)
                  /\ \A l \in DOMAIN diet_dict[h].intake : diet_dict[h].intake[l] = Zero
                  /\ diet_dict[h].If = Zero
                  /\ diet_dict[h].Is = Zero

\* a class with ceiling 0 has selected while a supplement was on offer
C7_Witness ==
    /\ Selected("cattle")
    /\ BeforeRationing
    /\ args.animal["cattle"].Imax = Zero
    /\ args.supp_available
    /\ diet_dict["cattle"].If = Zero

-----------------------------------------------------------------------------
(* Properties of the simulation step of execute *)

\* what the first loop over the classes does, and what the second loop does
FirstLoopOps == {"skip", "select", "check", "reselect", "store"}

SecondLoopOps == {"recompute", "milk", "delta_W", "update"}

\* the class has nothing of its diet selection pending at position i of the
\* record: its last entry before i is the store of its diet, or its skip
SelectionFinished(h, i) ==
    \E j \in 1..(i - 1) :
        /\ log[j].class = h
        /\ log[j].op \in {"store", "skip"}
        /\ \A k \in (j + 1)..(i - 1) : log[k].class # h

\* C8: in every simulation step of execute, reduce_demand runs only after
\* every herbivore class has finished its diet selection, any re-selection
\* included, and no requirement recomputation, milk correction, weight-change
\* computation or update of a class happens before reduce_demand has run:
\* everything before reduce_demand belongs to the first loop, everything
\* after it to the second.
C8_RationBetweenLoops ==
    \A i \in DOMAIN log :
        /\ log[i].op = "reduce_demand" =>
              /\ \A h \in Classes : SelectionFinished(h, i)
              /\ \A j \in 1..(i - 1) : log[j].op \in FirstLoopOps
              /\ \A j \in (i + 1)..Len(log) : log[j].op \in SecondLoopOps
        /\ log[i].op \in SecondLoopOps =>
              \E j \in 1..(i - 1) : log[j].op = "reduce_demand"

\* the step is over: one class re-selected its diet before reduce_demand ran
\* and both classes were updated after it
C8_Witness ==
    /\ pc = "end_step"
    /\ \E i \in DOMAIN log, j \in DOMAIN log, k \in DOMAIN log :
          /\ i < j /\ j < k
          /\ log[i].op = "reselect"
          /\ log[j].op = "reduce_demand"
          /\ log[k].op = "update" /\ log[k].class = "sheep"
    /\ \E k \in DOMAIN log : log[k].op = "milk" /\ log[k].class = "cattle"

\* the entries of the first loop for a class, in order
SelectionOf(h) ==
    LET mine(e) == e.class = h /\ e.op \in FirstLoopOps
    IN SelectSeq(log, mine)

\* C9: for each herbivore class in each step of execute, and in one_step,
\* diet selection is invoked at most twice: once with the maximum intake of
\* the class and, only if check_max_intake returned a strictly smaller
\* ceiling, exactly once more with that ceiling; the ceiling is checked at
\* most once, before the second selection, and execute stores the diet right
\* after the last selection.
C9_AtMostOneReselection ==
    \A h \in Classes :
        LET s == SelectionOf(h)
        IN \A i \in DOMAIN s :
              /\ s[i].op = "skip" => Len(s) = 1
              /\ s[i].op = "select" => i = 1
              /\ s[i].op = "check" => i = 2 /\ s[1].op = "select"
              /\ s[i].op = "reselect" =>
                    /\ i = 3
                    /\ s[2].op = "check"
                    /\ RLt(s[2].Imax, s[1].Imax)
                    /\ s[3].Imax = s[2].Imax
              /\ s[i].op = "store" =>
                    /\ i = Len(s)
                    /\ i > 1
                    /\ s[i - 1].op \in {"select", "check", "reselect"}
                    /\ s[i - 1].op = "check" => ~RLt(s[2].Imax, s[1].Imax)
                    /\ s[i - 1].op = "select" => herd[h].type = "hindgut_fermenter"

\* both cases in one step: the cattle class selected, was checked, selected
\* again with the smaller ceiling and stored its diet; the sheep class was
\* checked, kept its ceiling and stored its first diet
C9_Witness ==
    /\ pc = "ration"
    /\ Len(SelectionOf("cattle")) = 4
    /\ SelectionOf("cattle")[3].op = "reselect"
    /\ RLt(Zero, SelectionOf("cattle")[3].Imax)
    /\ Len(SelectionOf("sheep")) = 3
    /\ SelectionOf("sheep")[2].op = "check"
    /\ SelectionOf("sheep")[2].Imax = SelectionOf("sheep")[1].Imax

-----------------------------------------------------------------------------
(* Properties of HerbivoreClass.update *)

\* the last call was update(delta_weight=0, delta_time=0)
UpdatedByZero ==
    /\ pc = "updated"
    /\ log[1].delta_weight = Zero
    /\ log[1].delta_time = Zero

\* weight and age are as the call found them, and normal weight, relative size
\* and body condition are the ones that weight and age imply
SameWeightAndAge(before, after) ==
    LET FParam == get_params(before.type)
        N == calc_N(FParam, calc_Nmax(before, FParam), before.W)
    IN /\ after.W = before.W
       /\ after.A = before.A
       /\ after.N = N
       /\ after.Z = RDiv(N, before.SRW)
       /\ after.BC = RDiv(before.W, N)

\* C10: update(0, 0) on any HerbivoreClass state leaves W and A unchanged and
\* sets N, Z and BC to what the unchanged weight and age imply
C10_ZeroUpdateKeepsWeight ==
    UpdatedByZero => SameWeightAndAge(log[1].before, herd["cattle"])

\* C10, amended: the same for a class whose weight is 0 or at least its birth
\* weight; a weight in between is set to 0 by the call
C10_ZeroUpdateKeepsViableWeight ==
    (UpdatedByZero /\ (log[1].before.W = Zero
                        \/ RLe(log[1].before.Wbirth, log[1].before.W))) =>
        SameWeightAndAge(log[1].before, herd["cattle"])

\* update(0, 0) ran on a class that an earlier call had made lighter: its
\* previous weight differed from its weight and its normal weight moved
C10_Witness ==
    /\ UpdatedByZero
    /\ RLe(log[1].before.Wbirth, log[1].before.W)
    /\ log[1].before.Wprev # log[1].before.W
    /\ RLt(Zero, log[1].before.N)
    /\ herd["cattle"].N # log[1].before.N

-----------------------------------------------------------------------------
(* Properties of calc_delta_weight *)

\* the call was made with energy intake, and the net energy for gain it
\* computed and the energy value of gain are both negative
Starving ==
    /\ pc = "returned"
    /\ args.diet_interm.MEItotal # Zero
    /\ RLt(calc_NEg(get_params(herd["sheep"].type), args.diet_interm), Zero)
    /\ RLt(args.diet_interm.EVG, Zero)

\* C11: with energy intake and NEg < 0 and EVG < 0, calc_delta_weight returns
\* minus the current weight converted from a step to a day, never a gain
C11_StarvationFloor ==
    Starving =>
        /\ locals.delta_W = RNeg(convert_step_to_daily(herd["sheep"].W))
        /\ RLe(locals.delta_W, Zero)

\* a class of 275 kg starved in a monthly step: it loses 275 / 30.4 kg a day
C11_Witness ==
    /\ Starving
    /\ time_step = "month"
    /\ herd["sheep"].W = Q(275, 1)
    /\ locals.delta_W = Q(-1375, 152)

-----------------------------------------------------------------------------
(* Properties of the pools during selection and rationing *)

\* the diet class h selects when it is the only class that ever looked at
\* the pools as they stand now
SelectsAlone(h) ==
    diet_selection_t2(args.animal[h].ZF, calc_relative_height(available_forage).HR,
                      args.prop_legume, args.supp_available, args.animal[h].Imax,
                      get_params(args.animal[h].type), available_forage,
                      args.animal[h].f_w, args.animal[h].q_w, args.force_supp,
                      args.supp).diet

\* every diet selected so far is the one its class selects alone
SamePoolsForAll ==
    BeforeRationing => \A h \in DOMAIN diet_dict : diet_dict[h] = SelectsAlone(h)

\* C12: no diet selection and no demand rationing changes a pool's biomass,
\* digestibility, crude protein or relative availability, or the order of the
\* caller's pool list; so every class selects against the same pools, however
\* many classes selected before it
C12_PoolsUntouched ==
    /\ [][available_forage' = available_forage]_vars
    /\ []SamePoolsForAll

\* both classes selected from a list the caller had not sorted, with pools of
\* different biomass, and rationing then cut a diet
C12_Witness ==
    /\ pc = "rationed"
    /\ RLt(available_forage[1].digestibility, available_forage[2].digestibility)
    /\ available_forage[1].biomass # available_forage[2].biomass
    /\ diet_pre # diet_dict
    /\ \A h \in Classes : RLt(Zero, diet_dict[h].If)

-----------------------------------------------------------------------------
(* Properties of supplement substitution *)

\* the relative ingestibility of the pools as class h scores them
PoolScores(h) ==
    {calc_RQ(get_params(args.animal[h].type), args.prop_legume, available_forage[i]) :
        i \in DOMAIN available_forage}

\* class h selected its diet with a supplement on offer that was not forced
SupplementOffered(h) ==
    /\ BeforeRationing
    /\ Selected(h)
    /\ args.supp_available
    /\ ~args.force_supp

\* C13: a supplement on offer, not forced, that scores strictly higher than
\* every forage pool is left out of the diet: its intake is 0
C13_HigherScoreNoSupplement ==
    \A h \in Classes :
        (SupplementOffered(h) /\ \A RQ \in PoolScores(h) : RLt(RQ, args.supp.RQ)) =>
            diet_dict[h].Is = Zero

\* C13, amended: the supplement is left out when it scores strictly lower than
\* every pool; when it scores at least as high as every pool, something of it
\* is on offer and the class can eat, it is part of the diet
C13_LowerScoreNoSupplement ==
    \A h \in Classes :
        SupplementOffered(h) =>
            /\ (\A RQ \in PoolScores(h) : RLt(args.supp.RQ, RQ)) =>
                  diet_dict[h].Is = Zero
            /\ (/\ \A RQ \in PoolScores(h) : RLe(RQ, args.supp.RQ)
                /\ RLt(Zero, args.animal[h].Imax)
                /\ RLt(Zero, args.supp.DMO)) =>
                  RLt(Zero, diet_dict[h].Is)

\* the sheep has selected from two pools that both score higher than the
\* supplement on offer, and its diet holds forage only
C13_Witness ==
    /\ SupplementOffered("sheep")
    /\ \A RQ \in PoolScores("sheep") : RLt(args.supp.RQ, RQ)
    /\ RLt(Zero, args.supp.DMO)
    /\ RLt(Zero, diet_dict["sheep"].If)
    /\ diet_dict["sheep"].Is = Zero

-----------------------------------------------------------------------------
(* Properties of the single-pool selection *)

\* the class selected from the pool of the scenario: digestibility 0.6, crude
\* protein 0.1, 2000 kg per ha
SaturationCase ==
    /\ pc = "single_selected"
    /\ available_forage = SinglePool(Q(3, 5), Q(2000, 1))

\* the diet holds forage of the one pool only
AllFromThePool(diet) ==
    /\ DOMAIN diet.intake = {label_string(available_forage[1])}
    /\ diet.intake[label_string(available_forage[1])] = diet.If
    /\ diet.Is = Zero

-----------------------------------------------------------------------------
(* Properties of the normal weight *)

\* C15: after construction and after every update call the normal weight N of
\* the class is at most its maximum body size Nmax
C15_NormalWeightBounded ==
    pc \in {"constructed", "updated", "updated_model_step"} =>
        RLe(herd["cattle"].N, herd["cattle"].Nmax)

-----------------------------------------------------------------------------
(* Properties of the relative availability of the pools *)

\* C16: once the pools are created, and after every update_feed_types call,
\* the relative availabilities of the pools sum to 1 and each is the biomass
\* of its pool divided by the total biomass of all pools
C16_RelAvailabilityIsShare ==
    pc \in {"pools_created", "pools_updated"} =>
        /\ RSum([i \in DOMAIN available_forage |->
                   available_forage[i].rel_availability]) = One
        /\ \A i \in DOMAIN available_forage :
              available_forage[i].rel_availability =
                  RDiv(available_forage[i].biomass, calc_total_biomass(available_forage))

-----------------------------------------------------------------------------
(* Properties of the management threshold in execute *)

\* the step is in its second loop or past it
InSecondLoop == pc \in {"integrate", "end_step"}

\* the offtake of this step, as calc_total_intake returned it, leaves less
\* than threshold_biomass standing
StepViolates ==
    \E i \in DOMAIN log :
        log[i].op = "reduce_demand" /\ exceeds(locals, log[i].Imax)

\* the classes the second loop of this step has updated
Updated == {log[i].class : i \in {j \in DOMAIN log : log[j].op = "delta_W"}}

\* delta_W_step as the second loop passed it to update for class h
WeightChange(h) ==
    LET i == CHOOSE j \in DOMAIN log : log[j].op = "delta_W" /\ log[j].class = h
    IN log[i].Imax

\* the loss of the whole weight the class had before the update
WholeWeightLost(h) == RNeg(herd[h].Wprev)

\* C17 as stated: in a step where total standing biomass minus the total
\* rationed offtake falls below the threshold biomass, every class's diet is
\* replaced by the zero diet, the offtake recorded for the step is 0, and the
\* weight change of every class is 0 when restart_monthly is set and the loss
\* of its entire current weight otherwise.
C17_FloorResponse ==
    (InSecondLoop /\ StepViolates) =>
        /\ locals.total_intake_step = Zero
        /\ \A h \in Updated :
              /\ diet_dict[h] = fill_intake_zero(available_forage)
              /\ WeightChange(h) = IF args.restart_monthly THEN Zero
                                   ELSE WholeWeightLost(h)

\* C17, amended: in a step where total standing biomass minus the total
\* rationed offtake falls below the threshold biomass, every class's diet is
\* replaced by the zero diet, the offtake recorded for the step is 0, and the
\* weight change of every class is 0 when restart_monthly is set or the step
\* is outside grz_months, and the loss of its entire current weight otherwise.
C17_FloorResponseInGrazingMonths ==
    (InSecondLoop /\ StepViolates) =>
        /\ locals.total_intake_step = Zero
        /\ \A h \in Updated :
              /\ diet_dict[h] = fill_intake_zero(available_forage)
              /\ WeightChange(h) =
                    IF args.restart_monthly \/ not_grazing(args, step) THEN Zero
                    ELSE WholeWeightLost(h)

\* a grazing month without restart_monthly: the herd selected diets that took
\* the pools below the threshold, and the cattle class, which had eaten, lost
\* its whole weight
C17_Witness ==
    /\ pc = "end_step"
    /\ StepViolates
    /\ ~args.restart_monthly
    /\ ~not_grazing(args, step)
    /\ RLt(Zero, diet_pre["cattle"].If)
    /\ RLt(Zero, herd["cattle"].Wprev)
    /\ diet_dict["cattle"] = fill_intake_zero(available_forage)
    /\ WeightChange("cattle") = WholeWeightLost("cattle")
    /\ herd["cattle"].W = Zero

\* the offtake of this step, as calc_total_intake returned it, leaves at least
\* threshold_biomass standing
StepWithinThreshold ==
    \E i \in DOMAIN log :
        log[i].op = "reduce_demand" /\ ~exceeds(locals, log[i].Imax)

\* the second loop handles a class
ClassIntegrated ==
    /\ pc = "integrate"
    /\ pc' \in {"integrate", "end_step"}
    /\ h_index' = h_index + 1

\* the class keeps the diet reduce_demand left it and is updated by the weight
\* change calc_delta_weight computes from that diet
NormalOutcome(h) ==
    /\ diet_dict'[h] = diet_dict[h]
    /\ \E diet_interm \in calc_diet_intermediates(diet_dict[h], herd[h]) :
          herd'[h] = update(herd[h],
                            calc_delta_W_step(calc_delta_weight(
                                milk_checked(herd[h], diet_interm), herd[h])),
                            find_days_per_step)

\* C18: a management-threshold violation forces the zero/starvation outcome
\* for the violating step only: in every step whose own rationed offtake
\* leaves standing biomass at or above the threshold biomass, a later step
\* included, each class keeps its selected diet and its weight change is
\* computed from that diet by calc_delta_weight.
C18_ViolationEndsWithItsStep ==
    [][(ClassIntegrated /\ StepWithinThreshold)
          => NormalOutcome(herbivore_list[h_index])]_vars

-----------------------------------------------------------------------------
(* Properties of calc_diet_intermediates *)

\* the diet holds no forage and no supplement
NothingEaten == args.diet.If = Zero /\ args.diet.Is = Zero

\* C19: calc_diet_intermediates called with a diet whose forage intake and
\* supplement intake are both 0 returns, for every herbivore state including
\* weight 0, a DietIntermediates with total energy intake 0 and raises no
\* division or math-domain error.
C19_ZeroDietReturns ==
    (NothingEaten /\ pc # "selected") =>
        /\ pc = "budgeted"
        /\ locals.diet_interm.MEItotal = Zero

-----------------------------------------------------------------------------
(* Properties of the degenerate diet selection *)

\* the state of the selection after its first loop over the sorted pools
AfterFirstLoop ==
    forward_pass(args.animal["cattle"].ZF, args.HR, args.prop_legume,
                 args.supp_available, args.animal["cattle"].Imax,
                 get_params(args.animal["cattle"].type), sorted(available_forage),
                 args.force_supp, args.supp, Len(available_forage))

\* sum(R_w), the total weighted allocation over all pools
TotalWeighted(st) ==
    RSum(calc_R_w(st,
                  [i \in DOMAIN available_forage |->
                      calc_R(get_params(args.animal["cattle"].type),
                             args.prop_legume, st, i)],
                  args.animal["cattle"].f_w, args.animal["cattle"].q_w))

\* the intake ceiling is positive and the total weighted allocation is 0
NothingAllocated ==
    /\ RLt(Zero, args.animal["cattle"].Imax)
    /\ AfterFirstLoop.err = "none"
    /\ TotalWeighted(AfterFirstLoop) = Zero

\* C20: when the intake ceiling is positive but the total weighted allocation
\* over all pools is 0, diet_selection_t2 returns a Diet with zero intake for
\* every pool and raises no division-by-zero error.
C20_NothingAllocatedNothingEaten ==
    (pc # "select" /\ NothingAllocated) =>
        /\ pc = "selected"
        /\ \A l \in Labels(available_forage) : diet_dict["cattle"].intake[l] = Zero

-----------------------------------------------------------------------------
(* Properties of rationing with classes that do not graze *)

\* reduce_demand has been called once on the selected diets
CalledOnce == pc \in {"rationed", "ZeroDivisionError"}

\* some pool was oversubscribed by the selected diets and some class has
\* stocking density 0
IdleClassAtRationing ==
    /\ \E i \in DOMAIN available_forage : Oversubscribed(diet_pre, available_forage[i])
    /\ \E h \in DOMAIN diet_pre : stocking_density_dict[h] = Zero

\* C21: when a pool is oversubscribed and some class has stocking density 0,
\* reduce_demand completes without a division-by-zero error and leaves that
\* class's per-individual intake of the pool at its pre-ration value.
C21_IdleClassKeepsIntake ==
    (CalledOnce /\ IdleClassAtRationing) =>
        /\ pc = "rationed"
        /\ \A i \in DOMAIN available_forage, h \in DOMAIN diet_pre :
              (/\ Oversubscribed(diet_pre, available_forage[i])
               /\ stocking_density_dict[h] = Zero) =>
                  diet_dict[h].intake[label_string(available_forage[i])]
                      = diet_pre[h].intake[label_string(available_forage[i])]

-----------------------------------------------------------------------------
(* Properties of the order of the pools *)

\* the diet class h selects when the caller passes the pools in descending
\* order of digestibility, with the relative heights of that list
SelectsFromRanked(h) ==
    diet_selection_t2(args.animal[h].ZF,
                      calc_relative_height(sorted(available_forage)).HR,
                      args.prop_legume, args.supp_available, args.animal[h].Imax,
                      get_params(args.animal[h].type), sorted(available_forage),
                      args.animal[h].f_w, args.animal[h].q_w, args.force_supp,
                      args.supp).diet

DistinctDigestibility ==
    \A i \in DOMAIN available_forage, j \in DOMAIN available_forage :
        i # j => available_forage[i].digestibility # available_forage[j].digestibility

\* C22: for pools of pairwise distinct digestibility, the Diet returned by
\* diet_selection_t2 is the same for every order in which the caller passes
\* the pools, the relative heights computed on the list as passed: each pool
\* gets the intake it would get with the pools in descending order of
\* digestibility.
C22_CallerOrderIrrelevant ==
    (BeforeRationing /\ DistinctDigestibility) =>
        \A h \in DOMAIN diet_dict : diet_dict[h] = SelectsFromRanked(h)

-----------------------------------------------------------------------------
(* Properties of HerbivoreClass.update *)

\* update(delta_weight, delta_time) has just returned
JustUpdated == pc = "updated" /\ log[1].op = "update"

\* the weight update leaves: the sum, or 0 when the sum is below birth weight
MovedWeight(before, delta_weight) ==
    IF RLt(RAdd(before.W, delta_weight), before.Wbirth) THEN Zero
    ELSE RAdd(before.W, delta_weight)

\* C23: update(delta_weight, delta_time) sets the previous weight to the old
\* weight, sets the weight to old weight plus delta_weight or to 0 when that
\* sum is below birth weight, and advances age by delta_time; so after any
\* sequence of updates the weight is either 0 or at least the birth weight.
C23_UpdateMovesAndClamps ==
    JustUpdated =>
        /\ herd["cattle"].Wprev = log[1].before.W
        /\ herd["cattle"].W = MovedWeight(log[1].before, log[1].delta_weight)
        /\ herd["cattle"].A = RAdd(log[1].before.A, log[1].delta_time)
        /\ herd["cattle"].Wbirth = log[1].before.Wbirth
        /\ \/ herd["cattle"].W = Zero
           \/ RLe(herd["cattle"].Wbirth, herd["cattle"].W)

\* the second update of a class took 50 kg off a weight that was above the
\* birth weight, which left less than the birth weight: the weight is 0, the
\* previous weight is the weight the call found, and the age moved by a month
C23_Witness ==
    /\ JustUpdated
    /\ step = 2
    /\ log[1].delta_weight = Q(-50, 1)
    /\ log[1].delta_time = Q(152, 5)
    /\ RLe(log[1].before.Wbirth, log[1].before.W)
    /\ herd["cattle"].W = Zero
    /\ RLt(Zero, herd["cattle"].Wprev)
    /\ herd["cattle"].A = RAdd(log[1].before.A, Q(152, 5))

-----------------------------------------------------------------------------
(* Properties of the quality and quantity weights *)

\* the selection of class h on the pools as they stand, with other weights
SelectsWeighted(h, f_w, q_w) ==
    diet_selection_t2(args.animal[h].ZF, calc_relative_height(available_forage).HR,
                      args.prop_legume, args.supp_available, args.animal[h].Imax,
                      get_params(args.animal[h].type), available_forage,
                      f_w, q_w, args.force_supp, args.supp)

\* C24: for fixed pools, animal state, supplement and positive intake ceiling,
\* the total forage intake If returned by diet_selection_t2 is the same for
\* every choice of the quality weight q_w and the quantity weight f_w.
C24_WeightsKeepTotalIntake ==
    BeforeRationing =>
        \A h \in DOMAIN diet_dict :
            RLt(Zero, args.animal[h].Imax) =>
                \A f_w \in WeightValues, q_w \in WeightValues :
                    /\ SelectsWeighted(h, f_w, q_w).err = "none"
                    /\ SelectsWeighted(h, f_w, q_w).diet.If = diet_dict[h].If

\* the cattle class selected with both weights set: the pools got other
\* intakes than without weights, and the total is the same
C24_Witness ==
    /\ pc = "selected"
    /\ RLt(Zero, args.animal["cattle"].Imax)
    /\ args.animal["cattle"].f_w = One
    /\ args.animal["cattle"].q_w = One
    /\ RLt(Zero, diet_dict["cattle"].If)
    /\ SelectsWeighted("cattle", Zero, Zero).diet.intake # diet_dict["cattle"].intake
    /\ SelectsWeighted("cattle", Zero, Zero).diet.If = diet_dict["cattle"].If

-----------------------------------------------------------------------------
(* Properties of the intake ceiling under a protein shortage *)

CeilingChecked == pc = "ceiling_checked"

\* RDPI as check_max_intake computes it for the call made
CheckedRDPI ==
    calc_RDPI(get_params(herd["sheep"].type), args.diet, locals.diet_interm)

\* RDPI / RDPR of the call made
CheckedRatio == RDiv(CheckedRDPI, locals.diet_interm.RDPR)

\* the required protein exceeds the intake
ProteinShort == RLt(CheckedRDPI, locals.diet_interm.RDPR)

-----------------------------------------------------------------------------
(* Properties of the management threshold of restrict_available_forage *)

RestrictedAndRationed == pc \in {"rationed", "rationed_twice"}

\* total standing biomass of the pools, kg per ha
StandingBiomass ==
    RSum([i \in DOMAIN available_forage |-> available_forage[i].biomass])

\* what all classes take of all pools in the step, kg per ha
StepOfftake(dd) ==
    RSum([i \in DOMAIN available_forage |->
            pool_demand(dd, stocking_density_dict, available_forage[i], order)])

-----------------------------------------------------------------------------
(* Properties of a class at or below its birth weight *)

\* the class has no more than its birth weight
AtOrBelowBirthWeight(h) == RLe(herd[h].W, herd[h].Wbirth)

\* the diet holds no intake of any pool and no supplement
HoldsNothing(diet) ==
    /\ \A l \in DOMAIN diet.intake : diet.intake[l] = Zero
    /\ diet.If = Zero
    /\ diet.Is = Zero

\* an intake ceiling of 0 where the entry records a ceiling, and a weight
\* change of 0 or a loss where it records a weight change
IdleEntry(e) ==
    /\ e.op \in {"select", "check", "reselect"} => e.Imax = Zero
    /\ e.op = "delta_W" => RLe(e.Imax, Zero)

\* what a step of execute does with class h once it is at or below its birth
\* weight
StaysIdle(h) ==
    /\ AtOrBelowBirthWeight(h)'
    /\ RLe(herd'[h].W, herd[h].W)
    /\ \A i \in (Len(log) + 1)..Len(log') :
          log'[i].class = h => IdleEntry(log'[i])
    /\ (h \in DOMAIN diet_dict' /\ (h \notin DOMAIN diet_dict \/
                                     diet_dict'[h] # diet_dict[h]))
          => HoldsNothing(diet_dict'[h])

\* C27: once a class's weight is at or below its birth weight (0 after the
\* mortality clamp included), then in that step and in every later step of
\* the run its maximum intake is 0, its intake of every pool is 0, its daily
\* weight change is 0 or a loss, and its weight never increases again
\* (restart_yearly, which builds the herd anew, set aside).
C27_BelowBirthWeightIsTerminal ==
    [][\A h \in DOMAIN herd : AtOrBelowBirthWeight(h) => StaysIdle(h)]_vars

\* the cattle class began the run below its birth weight: in the second month
\* it was offered nothing, ate nothing and is still at 0 kg, while the other
\* class ate
C27_Witness ==
    /\ pc = "end_step"
    /\ step = 1
    /\ ~not_grazing(args, step)
    /\ herd["cattle"].W = Zero
    /\ \E i \in DOMAIN log : log[i] = event("select", "cattle", Zero)
    /\ \E i \in DOMAIN log : log[i] = event("delta_W", "cattle", Zero)
    /\ HoldsNothing(diet_dict["cattle"])
    /\ RLt(Zero, diet_dict["sheep"].If)

-----------------------------------------------------------------------------
(* Properties of the second diet selection *)

\* the class the first loop is at has just made its second selection
JustReselected ==
    /\ pc = "store"
    /\ log # <<>>
    /\ log[Len(log)].op = "reselect"

\* the selection of the class under the reduced ceiling with everything else
\* as in its first selection
SameButCeiling(h) ==
    select_for(herd[h], calc_relative_height(available_forage).HR,
               locals.reduced_max_intake, herd[h].f_w, herd[h].q_w)

\* C28: when the intake ceiling of a class is reduced and diet selection is
\* re-run, the second selection is invoked with the same pools, relative
\* heights, legume fraction, supplement availability and the class's weights
\* q_w and f_w as the first selection, differing only in the intake ceiling:
\* its diet is the one that invocation returns.
C28_ReselectionDiffersInCeilingOnly ==
    JustReselected => locals.diet = SameButCeiling(herbivore_list[h_index]).diet

-----------------------------------------------------------------------------
(* Properties of the reproductive cycle of a breeding female *)

\* the class has been updated for a model step
Bred == pc = "bred"

\* the model step of the last update
LastModelStep == log[1].model_step

\* steps since the last conception at the last update
CycleMonth ==
    (LastModelStep - herd["cattle"].conception_step) % herd["cattle"].calving_interval

\* the status the cycle gives at the last update
CycleStatus ==
    IF LastModelStep < herd["cattle"].conception_step THEN None
    ELSE IF CycleMonth < 9 THEN "pregnant"
    ELSE IF CycleMonth < 9 + herd["cattle"].lactation_duration THEN "lactating"
    ELSE None

\* C29: for a breeding_female class updated once per model step, the
\* reproductive status is neither pregnant nor lactating at every step
\* earlier than its conception step; from the conception step on it is
\* pregnant for 9 steps, then lactating for lactation_duration steps, then
\* neither until calving_interval steps have elapsed since conception, and this
\* cycle repeats; days since conception is non-zero only while pregnant and
\* days since birth only while lactating.
C29_ReproductiveCycle ==
    Bred =>
        /\ herd["cattle"].reproductive_status = CycleStatus
        /\ herd["cattle"].A_foet # 0 => herd["cattle"].reproductive_status = "pregnant"
        /\ herd["cattle"].A_y # 0 => herd["cattle"].reproductive_status = "lactating"

-----------------------------------------------------------------------------
(* Properties of a run without supplement *)

\* execute runs on a herd without 'supp_csv' in args, or with a supplement of
\* 0 kg per day
WithoutSupplement == impl = "natcap" /\ (~args.supp_csv \/ ~args.supp_available)

\* execute is in its step loop or has returned: no exception has ended it
ExecutesNormally ==
    pc \in {"begin_step", "select", "check", "reselect", "store", "ration",
            "integrate", "end_step"}

\* C30: a run configured without a supplement (no supp_csv argument, or a
\* supplement offering 0 kg per day) performs diet selection and requirement
\* computation for every class in every step with a supplement intake of 0
\* and without raising an error.
C30_RunsWithoutSupplement ==
    WithoutSupplement =>
        /\ ExecutesNormally
        /\ \A h \in DOMAIN diet_dict : diet_dict[h].Is = Zero

====
